---- MODULE Spec2Model ----
(***************************************************************************)
(* Model of the result cache of the resume analyzer's Flask backend         *)
(* (src/agents/flask_app.py): the analysis_cache table and the three        *)
(* functions that work on it, cache_analysis (put), get_cached_analysis     *)
(* (get) and cleanup_old_cache (sweep), with the JSON encoding of the       *)
(* payload that is stored in the analysis_result column; and of the PDF     *)
(* text processor (src/utils/enhanced_pdf_processor.py): text extraction,   *)
(* clean_text, analyze_readability, extract_key_phrases and process_pdf.    *)
(*                                                                         *)
(* Time is counted in hours.  A timestamp is the number of hours since the  *)
(* server started; SQLite's datetime() strings compare in that order.       *)
(***************************************************************************)
EXTENDS Integers, Sequences, FiniteSets, TLC

(***************************************************************************)
(* Program constants.                                                       *)
(***************************************************************************)
\* datetime('now', '-24 hours') in get_cached_analysis
FRESH_HOURS == 24
\* datetime('now', '-7 days') in cleanup_old_cache
RETENTION_DAYS == 7
RetentionHours == RETENTION_DAYS * 24
\* len(text.strip()) < 10 in analyze_readability
MIN_TEXT_LENGTH == 10
\* len(content.strip()) < 50 and len(content) > 50000 in
\* validate_resume_content
MIN_RESUME_LENGTH == 50
MAX_RESUME_LENGTH == 50000

(***************************************************************************)
(* Bounds of the model.                                                     *)
(***************************************************************************)
\* rows ever inserted (the AUTOINCREMENT id of the last one)
MaxId == 2
\* accessed_count stops here
MaxCount == 3
\* integers a payload may hold are 0..MaxNumber
MaxNumber == 3
\* characters of a text given to clean_text
MaxLen == 5
\* characters of a text given to analyze_readability, without its padding
MaxBody == 12
\* whitespace characters before and after such a text
MaxPad == 1
\* the Flesch reading ease scores are -ScoreMargin .. 100 + ScoreMargin
ScoreMargin == 2
\* words of a text given to extract_key_phrases
MaxWords == 3
\* top_n is 0..MaxTopN
MaxTopN == 2
\* pages of a PDF file
MaxPages == 2

\* the instants (hours) at which the cache functions are called: 0, within
\* 24 hours of 0, 24 hours after 0, 7 days after 0 and later than that
Instants == {0, 12, 24, 168, 180}

\* content hashes (hex digests of get_content_hash)
Hashes == {"h1", "h2"}

(***************************************************************************)
(* Python values: the analysis result is a dict of str keys whose values    *)
(* are None, bool, int, str, list or dict (what the analyzer returns).      *)
(* A dict is the sequence of its (key, value) items in insertion order.     *)
(***************************************************************************)
PyNone == [t |-> "none"]

PyBool(b) == [t |-> "bool", v |-> b]
PyInt(n) == [t |-> "int", v |-> n]
PyStr(s) == [t |-> "str", v |-> s]
PyList(items) == [t |-> "list", v |-> items]
PyDict(items) == [t |-> "dict", v |-> items]

\* the value of d[key] for a dict that has the key
PyItem(d, key) ==
    LET i == CHOOSE j \in 1..Len(d.v) : d.v[j][1] = key IN d.v[i][2]

PyHasKey(d, key) == \E j \in 1..Len(d.v) : d.v[j][1] = key

\* result.get('success'): the value, or None when the key is missing
PyGet(d, key) == IF PyHasKey(d, key) THEN PyItem(d, key) ELSE PyNone

\* d[key] = value: replaces the item in place, or appends it
PySetItem(d, key, value) ==
    IF PyHasKey(d, key)
      THEN PyDict([j \in 1..Len(d.v) |->
                     IF d.v[j][1] = key THEN <<key, value>> ELSE d.v[j]])
      ELSE PyDict(Append(d.v, <<key, value>>))

\* Python truthiness of a value
PyTruthy(x) ==
    CASE x.t = "none" -> FALSE
      [] x.t = "bool" -> x.v
      [] x.t = "int" -> x.v # 0
      [] x.t = "str" -> x.v # ""
      [] x.t = "list" -> Len(x.v) > 0
      [] x.t = "dict" -> Len(x.v) > 0

(***************************************************************************)
(* JSON text, as the sequence of its tokens.  A token has a kind (punct,    *)
(* lit, num, str) and its characters.                                       *)
(***************************************************************************)
Punct(s) == [k |-> "punct", s |-> s]
Lit(s) == [k |-> "lit", s |-> s]
Num(s) == [k |-> "num", s |-> s]
StrTok(s) == [k |-> "str", s |-> s]

RECURSIVE json_dumps(_)
RECURSIVE DumpList(_, _)
RECURSIVE DumpItems(_, _)

\* the elements i.. of a list, separated by commas
DumpList(items, i) ==
    IF i > Len(items) THEN <<>>
    ELSE (IF i > 1 THEN <<Punct(",")>> ELSE <<>>)
         \o json_dumps(items[i]) \o DumpList(items, i + 1)

\* the items i.. of a dict, as "key": value separated by commas
DumpItems(items, i) ==
    IF i > Len(items) THEN <<>>
    ELSE (IF i > 1 THEN <<Punct(",")>> ELSE <<>>)
         \o <<StrTok(items[i][1]), Punct(":")>>
         \o json_dumps(items[i][2]) \o DumpItems(items, i + 1)

\* json_dumps that writes numbers as strings
json_dumps_NumAsStr(x) ==
    CASE x.t = "none" -> <<Lit("null")>>
      [] x.t = "bool" -> <<Lit(IF x.v THEN "true" ELSE "false")>>
      [] x.t = "int" -> <<StrTok(ToString(x.v))>>
      [] x.t = "str" -> <<StrTok(x.v)>>
      [] x.t = "list" -> <<Punct("[")>> \o DumpList(x.v, 1) \o <<Punct("]")>>
      [] x.t = "dict" -> <<Punct("{")>> \o DumpItems(x.v, 1) \o <<Punct("}")>>

\* json.dumps(value)
json_dumps(x) ==
    CASE x.t = "none" -> <<Lit("null")>>
      [] x.t = "bool" -> <<Lit(IF x.v THEN "true" ELSE "false")>>
      [] x.t = "int" -> <<Num(ToString(x.v))>>
      [] x.t = "str" -> <<StrTok(x.v)>>
      [] x.t = "list" -> <<Punct("[")>> \o DumpList(x.v, 1) \o <<Punct("]")>>
      [] x.t = "dict" -> <<Punct("{")>> \o DumpItems(x.v, 1) \o <<Punct("}")>>

\* int(digits): the number a num token stands for
ParseInt(s) == CHOOSE n \in 0..MaxNumber : ToString(n) = s

RECURSIVE ParseValue(_, _)
RECURSIVE ParseList(_, _, _)
RECURSIVE ParseItems(_, _, _)

\* the rest of a list from token i on, acc holding the elements read so far;
\* the result is the value and the index after the closing bracket
ParseList(toks, i, acc) ==
    IF toks[i] = Punct("]") THEN [val |-> PyList(acc), next |-> i + 1]
    ELSE LET j == IF toks[i] = Punct(",") THEN i + 1 ELSE i
             e == ParseValue(toks, j)
         IN  ParseList(toks, e.next, Append(acc, e.val))

\* the rest of a dict from token i on
ParseItems(toks, i, acc) ==
    IF toks[i] = Punct("}") THEN [val |-> PyDict(acc), next |-> i + 1]
    ELSE LET j == IF toks[i] = Punct(",") THEN i + 1 ELSE i
             key == toks[j].s
             e == ParseValue(toks, j + 2)
         IN  ParseItems(toks, e.next, Append(acc, <<key, e.val>>))

\* the value that starts at token i
ParseValue(toks, i) ==
    LET tok == toks[i] IN
    CASE tok.k = "lit" ->
           [val |-> IF tok.s = "null" THEN PyNone ELSE PyBool(tok.s = "true"),
            next |-> i + 1]
      [] tok.k = "num" -> [val |-> PyInt(ParseInt(tok.s)), next |-> i + 1]
      [] tok.k = "str" -> [val |-> PyStr(tok.s), next |-> i + 1]
      [] tok = Punct("[") -> ParseList(toks, i + 1, <<>>)
      [] tok = Punct("{") -> ParseItems(toks, i + 1, <<>>)

\* json.loads(text)
json_loads(toks) == ParseValue(toks, 1).val

(***************************************************************************)
(* The analysis results the model stores.                                   *)
(***************************************************************************)
ResultA ==
    PyDict(<< <<"success", PyBool(TRUE)>>,
              <<"extracted_profile",
                PyDict(<< <<"key_skills", PyList(<<PyStr("sql"), PyStr("3")>>)>>,
                          <<"years_of_experience", PyInt(3)>>,
                          <<"willing_to_relocate", PyBool(FALSE)>> >>)>>,
              <<"resume_word_count", PyInt(1)>> >>)

ResultB ==
    PyDict(<< <<"success", PyBool(TRUE)>>,
              <<"groq_analysis",
                PyDict(<< <<"analysis", PyStr("true")>>,
                          <<"error", PyNone>>,
                          <<"tokens_used", PyInt(0)>> >>)>>,
              <<"extracted_profile", PyDict(<<>>)>>,
              <<"target_roles", PyList(<<>>)>> >>)

Payloads == {ResultA, ResultB}


(***************************************************************************)
(* State.                                                                   *)
(***************************************************************************)
VARIABLES
    now,        \* the clock: CURRENT_TIMESTAMP and datetime('now'), in hours
    table,      \* the rows of analysis_cache
    next_id,    \* the id AUTOINCREMENT gives the next inserted row
    last,       \* the last call of a cache function: its content hash,
                \* its outcome and the rows it found (pre: the rows of its
                \* content hash, or for the sweep the rows past retention)
    lastput,    \* per content hash, the last put that took effect: its
                \* payload and the entry it found (absent, fresh or stale)
    pc,         \* per concurrent request, where its handler stands
    loc,        \* per concurrent request, the handler's local variables
    inp,        \* the last call of a function of the PDF text processor:
                \* its name and its arguments
    out         \* what that call returned

vars == <<now, table, next_id, last, lastput, pc, loc, inp, out>>

\* the variables of the cache
cachevars == <<now, table, next_id, last, lastput, pc, loc>>

\* the requests that Flask's threaded server handles at the same time
Reqs == {"r1", "r2"}
\* the content they submit: the same resume text
SharedHashes == {"h1"}

\* an optional value: <<>> is None / NULL, <<x>> is x
None == <<>>
Some(x) == <<x>>

\* A storage failure of a call: where it strikes (early: before the commit
\* took effect, in connect, json.dumps, execute or commit; late: after it,
\* in close or json.loads) and the class of the exception raised there.
NoFailure == [at |-> "none", exc |-> ""]
SqlEarly == [at |-> "early", exc |-> "sqlite3.Error"]
SqlLate == [at |-> "late", exc |-> "sqlite3.Error"]
PutFailures == {NoFailure, SqlEarly, [at |-> "early", exc |-> "TypeError"], SqlLate}
GetFailures == {NoFailure, SqlEarly, SqlLate, [at |-> "late", exc |-> "ValueError"]}
SweepFailures == {NoFailure, SqlEarly, SqlLate}

\* ExceptCatches for a handler written as except sqlite3.Error
ExceptCatches_SqliteOnly(exc) == exc = "sqlite3.Error"

\* except Exception as e: every one of these classes derives from Exception
ExceptCatches(exc) == exc \in {"sqlite3.Error", "TypeError", "ValueError"}

\* try: ... except Exception: logger.error(...): whether the failure leaves
\* the function as an exception
Propagates(f) == f.at # "none" /\ ~ExceptCatches(f.exc)

\* SweepLog without the test deleted > 0
SweepLog_Always(deleted) == Some(deleted)

\* if deleted > 0: logger.info(f"Cleaned up {deleted} old cache entries")
SweepLog(deleted) == IF deleted > 0 THEN Some(deleted) ELSE None

(***************************************************************************)
(* The SQL statements.                                                      *)
(***************************************************************************)
RowsFor(t, h) == {r \in t : r.content_hash = h}

\* (SELECT accessed_count FROM analysis_cache WHERE content_hash = ?)
SelectAccessedCount(t, h) ==
    IF RowsFor(t, h) = {} THEN None
    ELSE Some((CHOOSE r \in RowsFor(t, h) : TRUE).accessed_count)

Coalesce(x, d) == IF x = None THEN d ELSE x[1]

\* NewRow with the counter reset by every put (no COALESCE of the old count)
NewRow_ResetCount(t, id, h, text, clock) ==
    [id |-> id, content_hash |-> h, analysis_result |-> text,
     created_at |-> clock, accessed_count |-> 1, last_accessed |-> clock]

\* NewRow that takes the count found, without the + 1
NewRow_NoIncrement(t, id, h, text, clock) ==
    [id |-> id,
     content_hash |-> h,
     analysis_result |-> text,
     created_at |-> clock,
     accessed_count |-> Coalesce(SelectAccessedCount(t, h), 0),
     last_accessed |-> clock]

\* the row cache_analysis inserts
NewRow(t, id, h, text, clock) ==
    [id |-> id,
     content_hash |-> h,
     analysis_result |-> text,
     created_at |-> clock,
     accessed_count |-> Coalesce(SelectAccessedCount(t, h), 0) + 1,
     last_accessed |-> clock]

\* InsertOrReplace on a table without the UNIQUE constraint on content_hash:
\* the new row is added beside the old one
InsertNoUnique(t, row) == t \cup {row}

\* InsertOrReplace as INSERT OR IGNORE: the row in conflict is kept
InsertOrIgnore(t, row) ==
    IF RowsFor(t, row.content_hash) # {} THEN t ELSE t \cup {row}

\* INSERT OR REPLACE: content_hash is UNIQUE, the rows in conflict are deleted
InsertOrReplace(t, row) == (t \ RowsFor(t, row.content_hash)) \cup {row}

\* SelectFresh with >= for >: an entry of exactly 24 hours is still served
SelectFresh_Inclusive(t, h, clock) ==
    {r \in t : r.content_hash = h /\ r.created_at >= clock - FRESH_HOURS}

\* SELECT analysis_result ... WHERE content_hash = ? AND
\* datetime(created_at) > datetime('now', '-24 hours')
SelectFresh(t, h, clock) ==
    {r \in t : r.content_hash = h /\ r.created_at > clock - FRESH_HOURS}

\* cursor.fetchone(): a row of the result, or None
FetchOne(rows) ==
    IF rows = {} THEN None ELSE Some((CHOOSE r \in rows : TRUE).analysis_result)

\* UpdateAccess that forgets last_accessed
UpdateAccess_NoTimestamp(t, h, clock) ==
    {IF r.content_hash = h THEN [r EXCEPT !.accessed_count = @ + 1] ELSE r
       : r \in t}

\* UpdateAccess that also renews created_at (a read that extends the expiry)
UpdateAccess_Refresh(t, h, clock) ==
    {IF r.content_hash = h
       THEN [r EXCEPT !.accessed_count = @ + 1, !.last_accessed = clock,
                      !.created_at = clock]
       ELSE r : r \in t}

\* UPDATE analysis_cache SET accessed_count = accessed_count + 1,
\* last_accessed = CURRENT_TIMESTAMP WHERE content_hash = ?
UpdateAccess(t, h, clock) ==
    {IF r.content_hash = h
       THEN [r EXCEPT !.accessed_count = @ + 1, !.last_accessed = clock]
       ELSE r : r \in t}

\* OldRows with <= for <: an entry of exactly 7 days is deleted
OldRows_Inclusive(t, clock) == {r \in t : r.created_at <= clock - RetentionHours}

\* the rows DELETE ... WHERE datetime(created_at) < datetime('now', '-7 days')
\* removes
OldRows(t, clock) == {r \in t : r.created_at < clock - RetentionHours}

\* what a put that takes effect leaves in lastput
PutRecord(t, h, p, clock) ==
    [payload |-> p,
     found |-> IF RowsFor(t, h) = {} THEN "absent"
               ELSE IF \A r \in RowsFor(t, h) : clock - r.created_at < FRESH_HOURS
                      THEN "fresh" ELSE "stale"]

(***************************************************************************)
(* Initial state: init_db() has created an empty table.                     *)
(***************************************************************************)
NoCall ==
    [op |-> "none", h |-> "", fail |-> "none", ret |-> None,
     raised |-> FALSE, pre |-> {}, deleted |-> 0, logged |-> None]

NoLocals ==
    [h |-> "", result |-> None, seen |-> {}, computed |-> None,
     response |-> None]

\* no function of the text processor has been called yet
NoInput == [op |-> "none"]

Init ==
    /\ now = 0
    /\ table = {}
    /\ next_id = 1
    /\ last = NoCall
    /\ lastput = [h \in Hashes |-> None]
    /\ pc = [r \in Reqs |-> "idle"]
    /\ loc = [r \in Reqs |-> NoLocals]
    /\ inp = NoInput
    /\ out = None

(***************************************************************************)
(* cache_analysis(content_hash, analysis_result): put.                      *)
(***************************************************************************)
cache_analysis(h, p, f) ==
    LET row == NewRow(table, next_id, h, json_dumps(p), now)
        done == f.at # "early"
    IN  /\ next_id <= MaxId
        /\ \A r \in RowsFor(table, h) : r.accessed_count < MaxCount
        /\ table' = IF done THEN InsertOrReplace(table, row) ELSE table
        /\ next_id' = IF done THEN next_id + 1 ELSE next_id
        /\ lastput' = IF done
                        THEN [lastput EXCEPT ![h] = Some(PutRecord(table, h, p, now))]
                        ELSE lastput
        /\ last' = [op |-> "put", h |-> h, fail |-> f.at,
                    ret |-> None, raised |-> Propagates(f),
                    pre |-> RowsFor(table, h),
                    deleted |-> 0, logged |-> None]
        /\ UNCHANGED <<now, pc, loc, inp, out>>

(***************************************************************************)
(* get_cached_analysis(content_hash): get.                                  *)
(***************************************************************************)
get_cached_analysis(h, f) ==
    LET result == FetchOne(SelectFresh(table, h, now))
        hit == result # None
        touched == hit /\ f.at # "early"
    IN  /\ \A r \in RowsFor(table, h) : r.accessed_count < MaxCount
        /\ table' = IF touched THEN UpdateAccess(table, h, now) ELSE table
        /\ last' = [op |-> "get", h |-> h, fail |-> f.at,
                    ret |-> IF hit /\ f.at = "none"
                              THEN Some(json_loads(result[1])) ELSE None,
                    raised |-> Propagates(f), pre |-> RowsFor(table, h),
                    deleted |-> 0, logged |-> None]
        /\ UNCHANGED <<now, next_id, lastput, pc, loc, inp, out>>

(***************************************************************************)
(* cleanup_old_cache(): sweep.                                              *)
(***************************************************************************)
cleanup_old_cache(f) ==
    LET old == OldRows(table, now)
        done == f.at # "early"
        deleted == Cardinality(old)
    IN  /\ table' = IF done THEN table \ old ELSE table
        /\ last' = [op |-> "sweep", h |-> "", fail |-> f.at,
                    ret |-> None, raised |-> Propagates(f),
                    pre |-> old,
                    deleted |-> IF done THEN deleted ELSE 0,
                    logged |-> IF f.at = "none" THEN SweepLog(deleted) ELSE None]
        /\ UNCHANGED <<now, next_id, lastput, pc, loc, inp, out>>

(***************************************************************************)
(* Time passes.                                                             *)
(***************************************************************************)
Tick ==
    \E t \in Instants :
        /\ t > now
        /\ now' = t
        /\ last' = NoCall
        /\ UNCHANGED <<table, next_id, lastput, pc, loc, inp, out>>

Put == \E h \in Hashes, p \in Payloads, f \in PutFailures : cache_analysis(h, p, f)
Get == \E h \in Hashes, f \in GetFailures : get_cached_analysis(h, f)
Sweep == \E f \in SweepFailures : cleanup_old_cache(f)

Next == Put \/ Get \/ Sweep \/ Tick

Spec == Init /\ [][Next]_vars


(***************************************************************************)
(* Concurrent requests.  app.run(threaded=True) serves each request in its  *)
(* own thread; each call of a cache function opens its own connection.      *)
(* A handler of analyze_text goes through get_cached_analysis (SELECT, then *)
(* UPDATE and commit, two statements with no transaction around them), the  *)
(* analyzer and cache_analysis (one statement and its commit).  A request   *)
(* is short beside the clock's instants: the clock moves between requests.  *)
(* When a handler returns, only its response is left of its locals.         *)
(***************************************************************************)
\* analyze_text: content_hash = get_content_hash(resume_text)
ReqStart(r, h) ==
    /\ pc[r] = "idle"
    /\ pc' = [pc EXCEPT ![r] = "select"]
    /\ loc' = [loc EXCEPT ![r] = [NoLocals EXCEPT !.h = h]]
    /\ UNCHANGED <<now, table, next_id, last, lastput, inp, out>>

\* get_cached_analysis: the SELECT and fetchone(); on a miss it returns None
ReqSelect(r) ==
    LET rows == SelectFresh(table, loc[r].h, now)
        result == FetchOne(rows)
    IN  /\ pc[r] = "select"
        /\ pc' = [pc EXCEPT ![r] = IF result # None THEN "update" ELSE "analyze"]
        /\ loc' = [loc EXCEPT ![r].result = result,
                              ![r].seen = {row.id : row \in rows}]
        /\ UNCHANGED <<now, table, next_id, last, lastput, inp, out>>

\* get_cached_analysis: the UPDATE, its commit and the return of the payload;
\* analyze_text marks it from_cache and responds
ReqUpdate(r) ==
    /\ pc[r] = "update"
    /\ \A row \in RowsFor(table, loc[r].h) : row.accessed_count < MaxCount
    /\ table' = UpdateAccess(table, loc[r].h, now)
    /\ pc' = [pc EXCEPT ![r] = "idle"]
    /\ loc' = [loc EXCEPT ![r] = [NoLocals EXCEPT
                 !.h = loc[r].h,
                 !.response = Some(PySetItem(json_loads(loc[r].result[1]),
                                             "from_cache", PyBool(TRUE)))]]
    /\ UNCHANGED <<now, next_id, last, lastput, inp, out>>

\* analyze_text: the analyzer's result, with its analysis_id
ReqAnalyze(r) ==
    \E p \in Payloads :
        /\ pc[r] = "analyze"
        /\ pc' = [pc EXCEPT ![r] = "put"]
        /\ loc' = [loc EXCEPT ![r].computed =
                     Some(PySetItem(p, "analysis_id", PyStr(loc[r].h)))]
        /\ UNCHANGED <<now, table, next_id, last, lastput, inp, out>>

\* analyze_text: cache_analysis(content_hash, result) and the response
ReqPut(r) ==
    LET h == loc[r].h
        p == loc[r].computed[1]
    IN  /\ pc[r] = "put"
        /\ next_id <= MaxId
        /\ \A row \in RowsFor(table, h) : row.accessed_count < MaxCount
        /\ table' = InsertOrReplace(table,
                        NewRow(table, next_id, h, json_dumps(p), now))
        /\ next_id' = next_id + 1
        /\ lastput' = [lastput EXCEPT ![h] = Some(PutRecord(table, h, p, now))]
        /\ pc' = [pc EXCEPT ![r] = "idle"]
        /\ loc' = [loc EXCEPT ![r] =
                     [NoLocals EXCEPT !.h = h, !.response = Some(p)]]
        /\ UNCHANGED <<now, last, inp, out>>

\* cleanup_old_cache, run by a scheduler beside the requests
ConcSweep ==
    /\ OldRows(table, now) # {}
    /\ table' = table \ OldRows(table, now)
    /\ UNCHANGED <<now, next_id, last, lastput, pc, loc, inp, out>>

ConcTick ==
    \E t \in Instants :
        /\ \A r \in Reqs : pc[r] = "idle"
        /\ t > now
        /\ now' = t
        /\ UNCHANGED <<table, next_id, last, lastput, pc, loc, inp, out>>

Start == \E r \in Reqs, h \in SharedHashes : ReqStart(r, h)
Select == \E r \in Reqs : ReqSelect(r)
Update == \E r \in Reqs : ReqUpdate(r)
Analyze == \E r \in Reqs : ReqAnalyze(r)
StorePut == \E r \in Reqs : ReqPut(r)

NextConc ==
    Start \/ Select \/ Update \/ Analyze \/ StorePut \/ ConcSweep \/ ConcTick

SpecConc == Init /\ [][NextConc]_vars


(***************************************************************************)
(* The PDF text processor (src/utils/enhanced_pdf_processor.py).  A text is *)
(* the sequence of its characters.                                          *)
(***************************************************************************)
LowerLetters ==
    <<"a", "b", "c", "d", "e", "f", "g", "h", "i", "j", "k", "l", "m",
      "n", "o", "p", "q", "r", "s", "t", "u", "v", "w", "x", "y", "z">>

UpperLetters ==
    <<"A", "B", "C", "D", "E", "F", "G", "H", "I", "J", "K", "L", "M",
      "N", "O", "P", "Q", "R", "S", "T", "U", "V", "W", "X", "Y", "Z">>

Range(f) == {f[i] : i \in DOMAIN f}

\* [a-z] and [A-Z]
IsLower(c) == c \in Range(LowerLetters)
IsUpper(c) == c \in Range(UpperLetters)
\* str.isalpha() of one character
IsLetter(c) == IsLower(c) \/ IsUpper(c)
IsDigit(c) == c \in {"0", "1", "2", "3", "4", "5", "6", "7", "8", "9"}

\* \s of the re module, and the characters str.strip() and str.split() drop
IsSpace(c) == c \in {" ", "\n", "\t", "\r"}

\* \w of the re module
IsWordChar(c) == IsLetter(c) \/ IsDigit(c) \/ c = "_"

\* the punctuation that clean_text keeps: .,!?;:\-'"()@
KeptPunctuation == {".", ",", "!", "?", ";", ":", "-", "'", "\"", "(", ")", "@"}

\* not text: the empty string (or None)
IsEmpty(text) == text = <<>>

\* text.strip()
RECURSIVE LStrip(_)
LStrip(s) == IF s # <<>> /\ IsSpace(Head(s)) THEN LStrip(Tail(s)) ELSE s

RECURSIVE RStrip(_)
RStrip(s) ==
    IF s # <<>> /\ IsSpace(s[Len(s)]) THEN RStrip(SubSeq(s, 1, Len(s) - 1))
    ELSE s

Strip(s) == RStrip(LStrip(s))

\* re.sub(r'\s+', ' ', text): each run of whitespace becomes one space
RECURSIVE CollapseWhitespace(_)
CollapseWhitespace(s) ==
    IF s = <<>> THEN <<>>
    ELSE IF IsSpace(Head(s)) THEN <<" ">> \o CollapseWhitespace(LStrip(s))
    ELSE <<Head(s)>> \o CollapseWhitespace(Tail(s))

\* the rest of s after the newlines it starts with
RECURSIVE SkipNewlines(_)
SkipNewlines(s) ==
    IF s # <<>> /\ Head(s) = "\n" THEN SkipNewlines(Tail(s)) ELSE s

\* re.sub(r'\n+', '\n', text): each run of newlines becomes one newline
RECURSIVE CollapseNewlines(_)
CollapseNewlines(s) ==
    IF s = <<>> THEN <<>>
    ELSE IF Head(s) = "\n" THEN <<"\n">> \o CollapseNewlines(SkipNewlines(s))
    ELSE <<Head(s)>> \o CollapseNewlines(Tail(s))

\* a character that [^\w\s.,!?;:\-'"()@] does not match
IsKept(c) == IsWordChar(c) \/ IsSpace(c) \/ c \in KeptPunctuation

\* re.sub(r'[^\w\s.,!?;:\-\'"()@]', '', text)
RemoveSpecial(s) == SelectSeq(s, IsKept)

\* text.replace('- ', ''): left to right, without overlap
RECURSIVE JoinHyphenated(_)
JoinHyphenated(s) ==
    IF s = <<>> THEN <<>>
    ELSE IF Len(s) >= 2 /\ s[1] = "-" /\ s[2] = " "
      THEN JoinHyphenated(SubSeq(s, 3, Len(s)))
    ELSE <<Head(s)>> \o JoinHyphenated(Tail(s))

\* re.sub(r'(?<=[a-z])(?=[A-Z])', ' ', text): a space between a lowercase
\* letter and the uppercase letter that follows it
RECURSIVE SplitCamelCase(_)
SplitCamelCase(s) ==
    IF s = <<>> THEN <<>>
    ELSE IF Len(s) >= 2 /\ IsLower(s[1]) /\ IsUpper(s[2])
      THEN <<s[1], " ">> \o SplitCamelCase(Tail(s))
    ELSE <<Head(s)>> \o SplitCamelCase(Tail(s))

\* clean_text(text)
clean_text(text) ==
    IF IsEmpty(text) THEN <<>>
    ELSE Strip(SplitCamelCase(JoinHyphenated(RemoveSpecial(
             CollapseNewlines(CollapseWhitespace(text))))))


(***************************************************************************)
(* analyze_readability.  sent_tokenize and word_tokenize (nltk) are         *)
(* modelled on plain text: a sentence ends with . ! or ? before whitespace   *)
(* or the end of the text, and a word token is a run of letters, digits and  *)
(* underscores or one other character.  The scores of textstat are values    *)
(* the library hands back, and either library may raise.                    *)
(***************************************************************************)
\* s[:n]
Prefix(s, n) == SubSeq(s, 1, IF n < Len(s) THEN n ELSE Len(s))

\* n spaces
Pad(n) == [i \in 1..n |-> " "]

\* a float, kept exactly
Ratio(n, d) == [num |-> n, den |-> d]

\* the rest of s after the word characters it starts with
RECURSIVE SkipWord(_)
SkipWord(s) ==
    IF s # <<>> /\ IsWordChar(Head(s)) THEN SkipWord(Tail(s)) ELSE s

\* word_tokenize(text)
RECURSIVE word_tokenize(_)
word_tokenize(s) ==
    IF s = <<>> THEN <<>>
    ELSE IF IsSpace(Head(s)) THEN word_tokenize(LStrip(s))
    ELSE IF IsWordChar(Head(s))
      THEN <<SubSeq(s, 1, Len(s) - Len(SkipWord(s)))>>
               \o word_tokenize(SkipWord(s))
    ELSE <<<<Head(s)>>>> \o word_tokenize(Tail(s))

\* the sentences of s, after the characters cur of the sentence begun
RECURSIVE SentencesFrom(_, _)
SentencesFrom(s, cur) ==
    IF s = <<>> THEN (IF Strip(cur) = <<>> THEN <<>> ELSE <<Strip(cur)>>)
    ELSE IF Head(s) \in {".", "!", "?"} /\ (Len(s) = 1 \/ IsSpace(s[2]))
      THEN <<Strip(Append(cur, Head(s)))>> \o SentencesFrom(Tail(s), <<>>)
    ELSE SentencesFrom(Tail(s), Append(cur, Head(s)))

\* sent_tokenize(text)
sent_tokenize(s) == SentencesFrom(s, <<>>)

\* w.isalpha()
IsAlpha(w) == w # <<>> /\ \A i \in 1..Len(w) : IsLetter(w[i])

\* the rest of s after the characters it starts with that are not whitespace
RECURSIVE SkipNonSpace(_)
SkipNonSpace(s) ==
    IF s # <<>> /\ ~IsSpace(Head(s)) THEN SkipNonSpace(Tail(s)) ELSE s

\* text.split()
RECURSIVE SplitWhitespace(_)
SplitWhitespace(s) ==
    IF LStrip(s) = <<>> THEN <<>>
    ELSE LET t == LStrip(s)
         IN  <<SubSeq(t, 1, Len(t) - Len(SkipNonSpace(t)))>>
                 \o SplitWhitespace(SkipNonSpace(t))

\* the pieces of s between dots, after the characters cur of the piece begun
RECURSIVE PiecesFrom(_, _)
PiecesFrom(s, cur) ==
    IF s = <<>> THEN <<cur>>
    ELSE IF Head(s) = "." THEN <<cur>> \o PiecesFrom(Tail(s), <<>>)
    ELSE PiecesFrom(Tail(s), Append(cur, Head(s)))

\* text.split('.')
SplitOnDot(s) == PiecesFrom(s, <<>>)

\* sum(len(w) for w in ws)
RECURSIVE SumLen(_)
SumLen(ws) == IF ws = <<>> THEN 0 ELSE Len(Head(ws)) + SumLen(Tail(ws))

\* TooShort that measures the text with its surrounding whitespace
TooShort_Untrimmed(text) == IsEmpty(text) \/ Len(text) < MIN_TEXT_LENGTH

\* not text or len(text.strip()) < 10
TooShort(text) == IsEmpty(text) \/ Len(Strip(text)) < MIN_TEXT_LENGTH

\* ReadabilityLevel whose bounds are exclusive
ReadabilityLevel_Exclusive(fre_score) ==
    IF fre_score > 90 THEN "Very Easy"
    ELSE IF fre_score > 80 THEN "Easy"
    ELSE IF fre_score > 70 THEN "Fairly Easy"
    ELSE IF fre_score > 60 THEN "Standard"
    ELSE IF fre_score > 50 THEN "Fairly Difficult"
    ELSE IF fre_score > 30 THEN "Difficult"
    ELSE "Very Difficult"

\* the if / elif ladder on fre_score
ReadabilityLevel(fre_score) ==
    IF fre_score >= 90 THEN "Very Easy"
    ELSE IF fre_score >= 80 THEN "Easy"
    ELSE IF fre_score >= 70 THEN "Fairly Easy"
    ELSE IF fre_score >= 60 THEN "Standard"
    ELSE IF fre_score >= 50 THEN "Fairly Difficult"
    ELSE IF fre_score >= 30 THEN "Difficult"
    ELSE "Very Difficult"

\* AlphaWords that keeps every token
AlphaWords_All(words) == words

\* [w for w in words if w.isalpha()]
AlphaWords(words) == SelectSeq(words, IsAlpha)

\* an exception: its class and str(e)
Exc(cls, msg) == [exc |-> cls, msg |-> msg]

\* a call that ends by raising e
Raised(e) == [raised |-> e.exc]

\* CatchesException for handlers written for the libraries' errors only
CatchesException_NoArithmetic(cls) ==
    cls \in {"LookupError", "ValueError", "FileNotFoundError"}

\* CatchesException for handlers that let the errors of open() through
CatchesException_NoFileError(cls) ==
    cls \in {"LookupError", "ValueError", "ZeroDivisionError"}

\* except Exception as e, in every method of the processor: each of these
\* classes derives from Exception
CatchesException(cls) ==
    cls \in {"LookupError", "ValueError", "FileNotFoundError",
             "ZeroDivisionError"}

\* MetricsException when avg_word_length is guarded by its own divisor
MetricsException_Guarded(text, lib) ==
    IF lib.fails = "nltk"
      THEN Some(Exc("LookupError", "Resource punkt not found."))
    ELSE IF lib.fails = "textstat"
      THEN Some(Exc("ValueError", "math domain error"))
    ELSE None

\* the exception raised inside the try block, if any: by the tokenizers, by
\* textstat, or by the division of avg_word_length, whose guard looks at
\* words and whose divisor is the number of alphabetic words
MetricsException(text, lib) ==
    IF lib.fails = "nltk"
      THEN Some(Exc("LookupError", "Resource punkt not found."))
    ELSE IF lib.fails = "textstat"
      THEN Some(Exc("ValueError", "math domain error"))
    ELSE IF word_tokenize(text) # <<>> /\ AlphaWords(word_tokenize(text)) = <<>>
      THEN Some(Exc("ZeroDivisionError", "division by zero"))
    ELSE None

\* FallbackCounts that counts tokens and sentences as the try block does
FallbackCounts_Tokenized(text) ==
    [word_count |-> Len(AlphaWords(word_tokenize(text))),
     sentence_count |-> Len(sent_tokenize(text))]

\* len(text.split()) if text else 0 and len(text.split('.')) if text else 0
FallbackCounts(text) ==
    [word_count |-> IF IsEmpty(text) THEN 0 ELSE Len(SplitWhitespace(text)),
     sentence_count |-> IF IsEmpty(text) THEN 0 ELSE Len(SplitOnDot(text))]

\* analyze_readability(text); lib is what nltk and textstat do in this call
analyze_readability(text, lib) ==
    LET sentences == sent_tokenize(text)
        words == word_tokenize(text)
        alpha == AlphaWords(words)
        e == MetricsException(text, lib)
    IN  IF TooShort(text)
          THEN [error |-> "Text too short for analysis",
                word_count |-> 0,
                sentence_count |-> 0]
        ELSE IF e # None /\ ~CatchesException(e[1].exc)
          THEN Raised(e[1])
        ELSE IF e # None
          THEN [error |-> e[1].msg,
                word_count |-> FallbackCounts(text).word_count,
                sentence_count |-> FallbackCounts(text).sentence_count]
        ELSE [flesch_reading_ease |-> lib.fre,
              flesch_kincaid_grade |-> lib.fkg,
              automated_readability_index |-> lib.ari,
              word_count |-> Len(alpha),
              sentence_count |-> Len(sentences),
              avg_sentence_length |->
                  IF sentences # <<>> THEN Ratio(Len(words), Len(sentences))
                  ELSE Ratio(0, 1),
              avg_word_length |->
                  IF words # <<>> THEN Ratio(SumLen(alpha), Len(alpha))
                  ELSE Ratio(0, 1),
              readability_level |-> ReadabilityLevel(lib.fre)]


(***************************************************************************)
(* extract_key_phrases.  A word is the sequence of its characters.          *)
(***************************************************************************)
\* the stop words of __init__ when nltk's list cannot be loaded
FallbackStopWords ==
    {<<"t", "h", "e">>, <<"a">>, <<"a", "n">>, <<"a", "n", "d">>,
     <<"o", "r">>, <<"b", "u", "t">>, <<"i", "n">>, <<"o", "n">>,
     <<"a", "t">>, <<"t", "o">>, <<"f", "o", "r">>, <<"o", "f">>,
     <<"w", "i", "t", "h">>, <<"b", "y">>}

\* stopwords.words('english'): the words above and many more, among them
NltkStopWords ==
    FallbackStopWords \cup {<<"t", "h", "i", "s">>, <<"h", "a", "v", "e">>}

\* c.lower()
LowerChar(c) ==
    IF IsUpper(c)
      THEN LowerLetters[CHOOSE i \in 1..Len(UpperLetters) : UpperLetters[i] = c]
      ELSE c

\* text.lower()
Lower(text) == [i \in 1..Len(text) |-> LowerChar(text[i])]

\* KeepWord without the stop-word test
KeepWord_NoStop(word, stop_words) == IsAlpha(word) /\ Len(word) > 2

\* word.isalpha() and len(word) > 2 and word not in self.stop_words
KeepWord(word, stop_words) ==
    IsAlpha(word) /\ Len(word) > 2 /\ word \notin stop_words

\* [word for word in words if ...]
RECURSIVE KeepWords(_, _)
KeepWords(words, stop_words) ==
    IF words = <<>> THEN <<>>
    ELSE IF KeepWord(Head(words), stop_words)
      THEN <<Head(words)>> \o KeepWords(Tail(words), stop_words)
    ELSE KeepWords(Tail(words), stop_words)

\* Counter(words)[w]
Count(words, w) == Cardinality({i \in 1..Len(words) : words[i] = w})

\* the keys of Counter(words), in the order of their first occurrence
RECURSIVE Keys(_)
Keys(words) ==
    IF words = <<>> THEN <<>>
    ELSE LET rest == Keys(SubSeq(words, 1, Len(words) - 1))
             w == words[Len(words)]
         IN  IF w \in Range(rest) THEN rest ELSE Append(rest, w)

\* the keys by descending count; keys of equal count keep their order
RECURSIVE ByCount(_, _)
ByCount(keys, words) ==
    IF keys = <<>> THEN <<>>
    ELSE LET i == CHOOSE i \in 1..Len(keys) :
                    /\ \A j \in 1..Len(keys) :
                           Count(words, keys[j]) <= Count(words, keys[i])
                    /\ \A j \in 1..(i - 1) :
                           Count(words, keys[j]) < Count(words, keys[i])
         IN  <<keys[i]>> \o ByCount(SubSeq(keys, 1, i - 1)
                                       \o SubSeq(keys, i + 1, Len(keys)), words)

\* most_common that leaves the keys in the order of their first occurrence
most_common_Unsorted(words, top_n) ==
    IF top_n <= 0 THEN <<>> ELSE Prefix(Keys(words), top_n)

\* [word for word, freq in Counter(words).most_common(top_n)]
most_common(words, top_n) ==
    LET sorted == ByCount(Keys(words), words)
    IN  IF top_n <= 0 THEN <<>> ELSE Prefix(sorted, top_n)

\* a call that returns v
Returned(v) == [returned |-> v]

\* extract_key_phrases(text, top_n); fails is what nltk does in this call
extract_key_phrases(text, top_n, stop_words, fails) ==
    IF IsEmpty(text) THEN Returned(<<>>)
    ELSE IF fails = "nltk" /\ ~CatchesException("LookupError")
      THEN Raised(Exc("LookupError", "Resource punkt not found."))
    ELSE IF fails = "nltk" THEN Returned(<<>>)
    ELSE Returned(most_common(
             KeepWords(word_tokenize(Lower(text)), stop_words), top_n))


(***************************************************************************)
(* extract_text_from_bytes and process_pdf.  The bytes of a file are kept   *)
(* as what each of the two libraries makes of them: the text of each page   *)
(* it finds, and, when it raises, how many pages it had read before.        *)
(***************************************************************************)
\* what a library makes of the bytes
Reading(pages, fails) == [pages |-> pages, fails |-> fails]

\* the library raises on opening the bytes
OpenFails == Reading(<<>>, Some(0))

\* the pages a library reads before it raises or comes to the end
PagesRead(r) == IF r.fails = None THEN r.pages ELSE Prefix(r.pages, r.fails[1])

\* b'': no PDF, and falsy
EmptyBytes == [empty |-> TRUE, plumber |-> OpenFails, pypdf |-> OpenFails]

\* "Error: Could not extract text from PDF"
ErrorText ==
    <<"E", "r", "r", "o", "r", ":", " ", "C", "o", "u", "l", "d", " ",
      "n", "o", "t", " ", "e", "x", "t", "r", "a", "c", "t", " ",
      "t", "e", "x", "t", " ", "f", "r", "o", "m", " ", "P", "D", "F">>

\* for page in pdf.pages: page_text = page.extract_text();
\* if page_text: text += page_text + "\n"
RECURSIVE PlumberText(_)
PlumberText(pages) ==
    IF pages = <<>> THEN <<>>
    ELSE IF Head(pages) # <<>>
      THEN Head(pages) \o <<"\n">> \o PlumberText(Tail(pages))
    ELSE PlumberText(Tail(pages))

\* for page in reader.pages: text += page.extract_text() + "\n"
RECURSIVE PyPdfText(_)
PyPdfText(pages) ==
    IF pages = <<>> THEN <<>>
    ELSE Head(pages) \o <<"\n">> \o PyPdfText(Tail(pages))

\* the except block of pdfplumber is entered: PyPDF2 is tried
FallbackRuns(pdf_bytes) == pdf_bytes.plumber.fails # None

\* extract_text_from_bytes that starts the fallback from an empty text
extract_text_from_bytes_Reset(pdf_bytes) ==
    IF ~FallbackRuns(pdf_bytes)
      THEN PlumberText(PagesRead(pdf_bytes.plumber))
    ELSE IF pdf_bytes.pypdf.fails = None
      THEN PyPdfText(pdf_bytes.pypdf.pages)
    ELSE ErrorText

\* extract_text_from_bytes(pdf_bytes)
extract_text_from_bytes(pdf_bytes) ==
    LET text == PlumberText(PagesRead(pdf_bytes.plumber))
    IN  IF ~FallbackRuns(pdf_bytes) THEN text
        ELSE IF pdf_bytes.pypdf.fails = None
          THEN text \o PyPdfText(pdf_bytes.pypdf.pages)
        ELSE ErrorText

\* raw_text.startswith("Error:")
StartsWithError(text) == Len(text) >= 6 /\ SubSeq(text, 1, 6) = Prefix(ErrorText, 6)

\* the file that open(pdf_path, 'rb') does not find
Missing == [missing |-> TRUE]

\* the exception raised before raw_text is there, if any: open() does not
\* find the file, or neither argument is given (None, '' and b'' are falsy)
ExtractException(pdf_path, pdf_bytes) ==
    IF pdf_path # None
      THEN (IF pdf_path[1] = Missing
              THEN Some(Exc("FileNotFoundError", "No such file or directory"))
              ELSE None)
    ELSE IF pdf_bytes # None /\ ~pdf_bytes[1].empty THEN None
    ELSE Some(Exc("ValueError", "Either pdf_path or pdf_bytes must be provided"))

\* raw_text of process_pdf: extract_text_from_file or extract_text_from_bytes
RawText(pdf_path, pdf_bytes) ==
    IF pdf_path # None THEN extract_text_from_bytes(pdf_path[1])
    ELSE extract_text_from_bytes(pdf_bytes[1])

\* the top_n of extract_key_phrases
DEFAULT_TOP_N == 15

\* process_pdf(pdf_path, pdf_bytes); lib is what nltk and textstat do
process_pdf(pdf_path, pdf_bytes, stop_words, lib) ==
    LET e == ExtractException(pdf_path, pdf_bytes)
        raw_text == RawText(pdf_path, pdf_bytes)
        cleaned_text == clean_text(raw_text)
        readability_metrics == analyze_readability(cleaned_text, lib)
        key_phrases ==
            extract_key_phrases(cleaned_text, DEFAULT_TOP_N, stop_words,
                                IF lib.fails = "nltk" THEN "nltk" ELSE "none")
    IN  IF e # None /\ ~CatchesException(e[1].exc) THEN Raised(e[1])
        ELSE IF e # None
          THEN [error |-> e[1].msg, success |-> FALSE,
                raw_text |-> <<>>, cleaned_text |-> <<>>]
        ELSE IF IsEmpty(raw_text) \/ StartsWithError(raw_text)
          THEN [error |-> "Failed to extract text from PDF",
                raw_text |-> raw_text, success |-> FALSE]
        ELSE [raw_text |-> raw_text,
              cleaned_text |-> cleaned_text,
              readability_metrics |-> readability_metrics,
              key_phrases |-> key_phrases.returned,
              text_length |-> Len(cleaned_text),
              word_count |-> readability_metrics.word_count,
              success |-> TRUE]


(***************************************************************************)
(* Calls of the text processor.  The processor keeps no state between       *)
(* calls but its stop words: each call is applied to arguments of its own.  *)
(***************************************************************************)
\* the characters of the texts given to clean_text: whitespace, a lowercase
\* and an uppercase letter, a hyphen and a character that is removed
CleanAlphabet == {" ", "\n", "a", "B", "-", "#"}

\* the texts of at most n characters over an alphabet
TextsUpTo(alphabet, n) == UNION {[1..k -> alphabet] : k \in 0..n}

CleanText ==
    /\ inp = NoInput
    /\ \E text \in TextsUpTo(CleanAlphabet, MaxLen) :
        /\ inp' = [op |-> "clean_text", text |-> text]
        /\ out' = clean_text(text)
        /\ UNCHANGED cachevars

\* sample texts: alphabetic words, a number and two sentences; numbers only
AlphaSample ==
    <<"a", "b", " ", "c", "d", ".", " ", "E", "f", " ", "1", "2", " ",
      "g", "h", ".">>
DigitSample ==
    <<"1", "2", " ", "3", "4", ".", " ", "5", "6", " ", "7", "8", "9", "0">>

AnalyzeTexts ==
    {Pad(l) \o Prefix(sample, n) \o Pad(t) :
        l \in 0..MaxPad, t \in 0..MaxPad, n \in 0..MaxBody,
        sample \in {AlphaSample, DigitSample}}

\* what textstat returns: flesch_reading_ease, and the two grade levels
Scores == (0 - ScoreMargin)..(100 + ScoreMargin)
Grades == {8, 12}

\* what the libraries do in a call: nltk raises (its data is missing),
\* textstat raises, or neither does and textstat returns its scores
LibOutcomes ==
    {[fails |-> f, fre |-> 0, fkg |-> 0, ari |-> 0] : f \in {"nltk", "textstat"}}
    \cup {[fails |-> "none", fre |-> s, fkg |-> g, ari |-> a] :
            s \in Scores, g \in Grades, a \in Grades}

AnalyzeReadability ==
    /\ inp = NoInput
    /\ \E text \in AnalyzeTexts, lib \in LibOutcomes :
        /\ inp' = [op |-> "analyze_readability", text |-> text, lib |-> lib]
        /\ out' = analyze_readability(text, lib)
        /\ UNCHANGED cachevars

\* the words of the texts given to extract_key_phrases: a word in lowercase
\* and in capitals, a second word, a capitalized stop word, a word of two
\* letters and one with a digit
Vocabulary ==
    {<<"s", "q", "l">>, <<"S", "Q", "L">>, <<"j", "a", "v", "a">>,
     <<"T", "h", "e">>, <<"g", "o">>, <<"r", "2", "d">>}

\* ' '.join(words)
RECURSIVE Join(_)
Join(words) ==
    IF words = <<>> THEN <<>>
    ELSE IF Len(words) = 1 THEN Head(words)
    ELSE Head(words) \o <<" ">> \o Join(Tail(words))

\* "python python sql python sql java"
ScenarioWords ==
    LET python == <<"p", "y", "t", "h", "o", "n">>
        sql == <<"s", "q", "l">>
        java == <<"j", "a", "v", "a">>
    IN  <<python, python, sql, python, sql, java>>

KeyPhraseTexts ==
    {Join(ws) : ws \in TextsUpTo(Vocabulary, MaxWords)}
        \cup {Join(ScenarioWords)}

ExtractKeyPhrases ==
    /\ inp = NoInput
    /\ \E text \in KeyPhraseTexts, top_n \in 0..MaxTopN,
          stop_words \in {FallbackStopWords, NltkStopWords},
          fails \in {"none", "nltk"} :
        /\ inp' = [op |-> "extract_key_phrases", text |-> text,
                   top_n |-> top_n, stop_words |-> stop_words,
                   fails |-> fails]
        /\ out' = extract_key_phrases(text, top_n, stop_words, fails)
        /\ UNCHANGED cachevars

\* the text of a page: none, or words and a number in two sentences
PageTexts == {<<>>, Prefix(AlphaSample, MaxBody)}

\* what a library can make of the bytes of a file
Readings ==
    {Reading(pages, None) : pages \in TextsUpTo(PageTexts, MaxPages)}
    \cup {Reading(pages, Some(n)) :
            pages \in TextsUpTo(PageTexts, MaxPages), n \in 0..(MaxPages - 1)}

\* the bytes given to the processor: b'', or bytes that are not empty (a
\* PDF file or not: neither library opens bytes that are no PDF)
PdfBytes ==
    {EmptyBytes} \cup {[empty |-> FALSE, plumber |-> r1, pypdf |-> r2] :
                         r1 \in Readings, r2 \in Readings}

ExtractText ==
    /\ inp = NoInput
    /\ \E pdf_bytes \in PdfBytes :
        /\ inp' = [op |-> "extract_text_from_bytes", pdf_bytes |-> pdf_bytes]
        /\ out' = [text |-> extract_text_from_bytes(pdf_bytes),
                   fallback |-> FallbackRuns(pdf_bytes)]
        /\ UNCHANGED cachevars

\* the arguments of process_pdf: a path, bytes, or neither
PdfArguments ==
    {<<None, None>>}
    \cup {<<None, Some(b)>> : b \in PdfBytes}
    \cup {<<Some(f), None>> : f \in PdfBytes \cup {Missing}}

\* what the libraries do in a call of process_pdf
PdfLibOutcomes ==
    {lib \in LibOutcomes :
        lib.fails # "none" \/ (lib.fre = 60 /\ lib.fkg = 8 /\ lib.ari = 8)}

ProcessPdf ==
    /\ inp = NoInput
    /\ \E args \in PdfArguments, lib \in PdfLibOutcomes,
          stop_words \in {FallbackStopWords, NltkStopWords} :
        /\ inp' = [op |-> "process_pdf", pdf_path |-> args[1],
                   pdf_bytes |-> args[2], lib |-> lib,
                   stop_words |-> stop_words]
        /\ out' = process_pdf(args[1], args[2], stop_words, lib)
        /\ UNCHANGED cachevars

NextText ==
    CleanText \/ AnalyzeReadability \/ ExtractKeyPhrases \/ ExtractText
        \/ ProcessPdf

SpecText == Init /\ [][NextText]_vars


(***************************************************************************)
(* The request handlers analyze_text and analyze_pdf                        *)
(* (src/agents/flask_app.py), each from the request to the response.        *)
(***************************************************************************)
\* validate_resume_content: the keywords of the two any(...)
ExperienceMarkers ==
    {<<"e", "x", "p", "e", "r", "i", "e", "n", "c", "e">>,
     <<"w", "o", "r", "k">>,
     <<"e", "m", "p", "l", "o", "y", "m", "e", "n", "t">>,
     <<"j", "o", "b">>,
     <<"p", "o", "s", "i", "t", "i", "o", "n">>,
     <<"r", "o", "l", "e">>}

SkillsMarkers ==
    {<<"s", "k", "i", "l", "l", "s">>,
     <<"a", "b", "i", "l", "i", "t", "i", "e", "s">>,
     <<"c", "o", "m", "p", "e", "t", "e", "n", "c", "i", "e", "s">>,
     <<"t", "e", "c", "h", "n", "o", "l", "o", "g", "i", "e", "s">>}

\* keyword in content
Contains(content, keyword) ==
    \E i \in 1..(Len(content) - Len(keyword) + 1) :
        SubSeq(content, i, i + Len(keyword) - 1) = keyword

\* a validation result: the tuple (is_valid, message)
Validation(is_valid, message) == [is_valid |-> is_valid, message |-> message]

\* validate_resume_content(content)
validate_resume_content(content) ==
    IF IsEmpty(content) \/ Len(Strip(content)) < MIN_RESUME_LENGTH
      THEN Validation(FALSE,
               "Resume content too short (minimum 50 characters required)")
    ELSE IF Len(content) > MAX_RESUME_LENGTH
      THEN Validation(FALSE,
               "Resume content too long (maximum 50,000 characters allowed)")
    ELSE IF ~\E keyword \in ExperienceMarkers \cup SkillsMarkers :
                Contains(Lower(content), keyword)
      THEN Validation(FALSE,
               "Content doesn't appear to be a resume (missing experience or skills sections)")
    ELSE Validation(TRUE, "Valid")

\* get_content_hash that trims the content before it hashes it
get_content_hash_Trimmed(content) == [sha256 |-> Strip(content)]

\* hashlib.sha256(content.encode()).hexdigest(): the digest is a function of
\* the content, and different contents have different digests
get_content_hash(content) == [sha256 |-> content]

\* str(value) of a Python value, as the sequence of the pieces of its text
RECURSIVE py_str(_)
RECURSIVE StrList(_, _)
RECURSIVE StrItems(_, _)

StrList(items, i) ==
    IF i > Len(items) THEN <<>>
    ELSE (IF i > 1 THEN <<", ">> ELSE <<>>)
         \o py_str(items[i]) \o StrList(items, i + 1)

StrItems(items, i) ==
    IF i > Len(items) THEN <<>>
    ELSE (IF i > 1 THEN <<", ">> ELSE <<>>)
         \o <<"'", items[i][1], "'", ": ">>
         \o py_str(items[i][2]) \o StrItems(items, i + 1)

py_str(x) ==
    CASE x.t = "none" -> <<"None">>
      [] x.t = "bool" -> <<IF x.v THEN "True" ELSE "False">>
      [] x.t = "int" -> <<ToString(x.v)>>
      [] x.t = "str" -> <<"'", x.v, "'">>
      [] x.t = "list" -> <<"[">> \o StrList(x.v, 1) \o <<"]">>
      [] x.t = "dict" -> <<"{">> \o StrItems(x.v, 1) \o <<"}">>

\* result.get(key, default)
PyGetDefault(d, key, default) == IF PyHasKey(d, key) THEN PyItem(d, key) ELSE default


\* word repeated n times, with spaces between
Repeat(word, n) == Join([i \in 1..n |-> word])

\* a text that passes validate_resume_content (54 characters, with "work"),
\* one of that length without any of the keywords, and one that is too short
ResumeSample == Repeat(<<"w", "o", "r", "k">>, 11)
EssaySample == Repeat(<<"j", "a", "v", "a">>, 11)
ShortSample == Repeat(<<"w", "o", "r", "k">>, 2)

\* the resume_text of the requests: the resume with and without trailing
\* whitespace, and texts that validation rejects
AppTexts ==
    {ResumeSample, ResumeSample \o <<" ">>, EssaySample, ShortSample, <<>>}

\* validate_resume_content on each of these texts
Validated == [text \in AppTexts |-> validate_resume_content(text)]

\* request.get_json(): no data or no 'resume_text' in it, or the text
TextData == {None} \cup {Some(text) : text \in AppTexts}

\* the result of an analysis that did not succeed
FailedResult ==
    PyDict(<< <<"success", PyBool(FALSE)>>,
              <<"message", PyStr("Analysis failed")>>,
              <<"error", PyStr("Groq API error")>> >>)

\* what the analyzer does in a request: the import of ResumeAnalyzer failed
\* (it is None), the analysis raises, or it returns a result
AnalyzerOutcomes ==
    {[kind |-> "unavailable", result |-> PyNone],
     [kind |-> "raises", result |-> PyNone]}
    \cup {[kind |-> "returns", result |-> r] :
            r \in Payloads \cup {FailedResult}}

\* jsonify(...), status
Response(status, body) == [status |-> status, body |-> body]

\* {'success': False, 'error': ..., 'code': ...}
ErrorBody(error, code) ==
    PyDict(<< <<"success", PyBool(FALSE)>>,
              <<"error", PyStr(error)>>,
              <<"code", PyStr(code)>> >>)

\* an analyzer that returns a successful result
Succeeds == [kind |-> "returns", result |-> ResultA]

\* ShouldCache for a handler that caches every result
ShouldCache_Always(result) == TRUE

\* if result.get('success'):
ShouldCache(result) == PyTruthy(PyGet(result, "success"))

\* what a handler did: the table and the next row id it leaves, its
\* response, and the calls it made, in their order
Handled(t, id, response, calls) ==
    [table |-> t, next_id |-> id, response |-> response, calls |-> calls]

\* the storage in a request: it works, or sqlite3.connect raises in every
\* cache function, which logs the error and returns
StorageOutcomes == {NoFailure, SqlEarly}

\* get_cached_analysis as the handlers see it: the table it leaves and what
\* it returns
CachedAnalysis(t, h, clock, f) ==
    LET result == IF f.at = "none" THEN FetchOne(SelectFresh(t, h, clock))
                  ELSE None
    IN  [table |-> IF result # None THEN UpdateAccess(t, h, clock) ELSE t,
         ret |-> IF result # None THEN json_loads(result[1]) ELSE PyNone]

\* cache_analysis as the handlers see it: the table and next row id it leaves
Cached(t, id, h, result, clock, f) ==
    IF f.at = "none"
      THEN [table |-> InsertOrReplace(t, NewRow(t, id, h, json_dumps(result),
                                                clock)),
            next_id |-> id + 1]
      ELSE [table |-> t, next_id |-> id]

\* content_hash[:16]: the identifier is made of the digest and of nothing
\* else; it is kept as the digest it is taken from
AnalysisId(content_hash) == PyStr(content_hash)

\* the body of analyze_text
analyze_text(data, analyzer, f) ==
    LET resume_text == data[1]
        validation == Validated[resume_text]
        content_hash == get_content_hash(resume_text)
        got == CachedAnalysis(table, content_hash, now, f)
        cached_result == got.ret
        result == PySetItem(analyzer.result, "analysis_id",
                            AnalysisId(content_hash))
        put == Cached(got.table, next_id, content_hash, result, now, f)
    IN  IF data = None
          THEN Handled(table, next_id,
                   Response(400, ErrorBody("No resume text provided",
                                           "MISSING_TEXT")), <<>>)
        ELSE IF ~validation.is_valid
          THEN Handled(table, next_id,
                   Response(400, ErrorBody(validation.message,
                                           "INVALID_CONTENT")), <<>>)
        ELSE IF PyTruthy(cached_result)
          THEN Handled(got.table, next_id,
                   Response(200, PySetItem(cached_result, "from_cache",
                                           PyBool(TRUE))), <<"get">>)
        ELSE IF analyzer.kind = "unavailable"
          THEN Handled(got.table, next_id,
                   Response(503, ErrorBody(
                       "Resume analyzer service temporarily unavailable",
                       "SERVICE_UNAVAILABLE")), <<"get">>)
        ELSE IF analyzer.kind = "raises"
          THEN Handled(got.table, next_id,
                   Response(500, ErrorBody(
                       "Analysis failed due to server error",
                       "PROCESSING_ERROR")), <<"get", "analyze">>)
        ELSE IF ShouldCache(result)
          THEN Handled(put.table, put.next_id, Response(200, result),
                       <<"get", "analyze", "put">>)
        ELSE Handled(got.table, next_id, Response(200, result),
                     <<"get", "analyze">>)

\* the requests to analyze_text: what is sent, and what the analyzer and the
\* storage do in the request; a request that is rejected before it reaches
\* them is taken once, with both working
TextRequests ==
    {[data |-> data, analyzer |-> analyzer, storage |-> f] :
        data \in {d \in TextData :
                    d # None /\ Validated[d[1]].is_valid},
        analyzer \in AnalyzerOutcomes, f \in StorageOutcomes}
    \cup {[data |-> data, analyzer |-> Succeeds, storage |-> NoFailure] :
            data \in TextData}

\* the rows stay within the bounds of the model
WithinBounds(t, id) ==
    /\ id <= MaxId + 1
    /\ \A row \in t : row.accessed_count <= MaxCount

AnalyzeText ==
    /\ inp = NoInput
    /\ \E request \in TextRequests :
        LET h == analyze_text(request.data, request.analyzer,
                              request.storage)
        IN  /\ WithinBounds(h.table, h.next_id)
            /\ table' = h.table
            /\ next_id' = h.next_id
            /\ inp' = [op |-> "analyze_text", data |-> request.data,
                       analyzer |-> request.analyzer,
                       storage |-> request.storage]
            /\ out' = [response |-> h.response, calls |-> h.calls]
            /\ UNCHANGED <<now, last, lastput, pc, loc>>


\* app.config['MAX_CONTENT_LENGTH']
MAX_CONTENT_LENGTH == 16 * 1024 * 1024

\* filename.lower().endswith(suffix)
EndsWith(name, suffix) ==
    /\ Len(name) >= Len(suffix)
    /\ SubSeq(name, Len(name) - Len(suffix) + 1, Len(name)) = suffix

\* request.files of the requests: no 'file', or a file with its name and size
Uploads ==
    {None}
    \cup {Some([filename |-> name, size |-> size]) :
            name \in {<<>>, <<"a", ".", "P", "D", "F">>,
                      <<"a", ".", "t", "x", "t">>},
            size \in {1, MAX_CONTENT_LENGTH + 1}}

\* os.remove(filepath) in a request: it removes the file, or raises
RemovalOutcomes == {"removed", "OSError"}

\* an upload that passes the checks of analyze_pdf
Accepted(upload) ==
    /\ upload # None
    /\ upload[1].filename # <<>>
    /\ EndsWith(Lower(upload[1].filename), <<".", "p", "d", "f">>)
    /\ upload[1].size <= MAX_CONTENT_LENGTH

\* CleanupCatches for a finally block that calls os.remove unguarded
CleanupCatches_None(exc) == FALSE

\* except Exception as cleanup_error: around os.remove
CleanupCatches(exc) == exc \in {"OSError"}

\* the finally block of analyze_pdf: the removal is attempted after the
\* body; an exception it lets through replaces the response of the body and
\* reaches the outer handler
Finally(h, removal) ==
    LET calls == Append(h.calls, "remove")
    IN  IF removal = "removed" \/ CleanupCatches(removal)
          THEN Handled(h.table, h.next_id, h.response, calls)
          ELSE Handled(h.table, h.next_id,
                   Response(500, ErrorBody(
                       "Analysis failed due to server error",
                       "PROCESSING_ERROR")), calls)

\* PdfKey over the whole result instead of its extracted profile
PdfKey_WholeResult(result) == get_content_hash(py_str(result))

\* the key of a PDF result: str(result.get('extracted_profile', {})), hashed
PdfKey(result) ==
    get_content_hash(py_str(PyGetDefault(result, "extracted_profile",
                                         PyDict(<<>>))))

\* the body of analyze_pdf
analyze_pdf(upload, analyzer, f, removal) ==
    LET file == upload[1]
        content_hash == PdfKey(analyzer.result)
        result == PySetItem(analyzer.result, "analysis_id",
                            AnalysisId(content_hash))
        put == Cached(table, next_id, content_hash, result, now, f)
        Rejected(status, error, code) ==
            Handled(table, next_id, Response(status, ErrorBody(error, code)),
                    <<>>)
    IN  IF upload = None
          THEN Rejected(400, "No file uploaded", "MISSING_FILE")
        ELSE IF file.filename = <<>>
          THEN Rejected(400, "No file selected", "EMPTY_FILENAME")
        ELSE IF ~EndsWith(Lower(file.filename), <<".", "p", "d", "f">>)
          THEN Rejected(400, "Only PDF files are allowed", "INVALID_FILE_TYPE")
        ELSE IF file.size > MAX_CONTENT_LENGTH
          THEN Rejected(413, "File too large. Maximum size is 16MB.",
                        "FILE_TOO_LARGE")
        ELSE IF analyzer.kind = "unavailable"
          THEN Finally(Handled(table, next_id,
                   Response(503, ErrorBody(
                       "Resume analyzer service temporarily unavailable",
                       "SERVICE_UNAVAILABLE")), <<"save">>), removal)
        ELSE IF analyzer.kind = "raises"
          THEN Finally(Handled(table, next_id,
                   Response(500, ErrorBody(
                       "Analysis failed due to server error",
                       "PROCESSING_ERROR")), <<"save", "analyze">>), removal)
        ELSE IF ShouldCache(analyzer.result)
          THEN Finally(Handled(put.table, put.next_id, Response(200, result),
                               <<"save", "analyze", "put">>), removal)
        ELSE Finally(Handled(table, next_id, Response(200, analyzer.result),
                             <<"save", "analyze">>), removal)

\* the requests to analyze_pdf: the upload, and what the analyzer, the
\* storage and the removal do in the request; a request that is rejected
\* before the file is saved is taken once, with all of them working
PdfRequests ==
    {[upload |-> upload, analyzer |-> analyzer, storage |-> f,
      removal |-> removal] :
        upload \in {u \in Uploads : Accepted(u)},
        analyzer \in AnalyzerOutcomes, f \in StorageOutcomes,
        removal \in RemovalOutcomes}
    \cup {[upload |-> upload, analyzer |-> Succeeds, storage |-> NoFailure,
           removal |-> "removed"] : upload \in Uploads}

AnalyzePdf ==
    /\ inp = NoInput
    /\ \E request \in PdfRequests :
        LET h == analyze_pdf(request.upload, request.analyzer,
                             request.storage, request.removal)
        IN  /\ WithinBounds(h.table, h.next_id)
            /\ table' = h.table
            /\ next_id' = h.next_id
            /\ inp' = [op |-> "analyze_pdf", upload |-> request.upload,
                       analyzer |-> request.analyzer,
                       storage |-> request.storage,
                       removal |-> request.removal]
            /\ out' = [response |-> h.response, calls |-> h.calls]
            /\ UNCHANGED <<now, last, lastput, pc, loc>>

\* the response has been sent: the worker takes the next request
Respond ==
    /\ inp # NoInput
    /\ inp' = NoInput
    /\ out' = None
    /\ UNCHANGED <<now, table, next_id, last, lastput, pc, loc>>

\* the instants at which requests arrive, in hours
AppInstants == {0, 12, 24}

\* time passes between two requests
AppTick ==
    /\ inp = NoInput
    /\ \E t \in AppInstants :
        /\ t > now
        /\ now' = t
        /\ UNCHANGED <<table, next_id, last, lastput, pc, loc, inp, out>>

NextApp == AnalyzeText \/ AnalyzePdf \/ Respond \/ AppTick

SpecApp == Init /\ [][NextApp]_vars


(***************************************************************************)
(* The properties.  Fresh and Stale are the states of an entry in the       *)
(* specification: Fresh while now - created_at < 24h, Stale from then on.   *)
(***************************************************************************)
IsFresh(r, clock) == clock - r.created_at < FRESH_HOURS
IsStale(r, clock) == clock - r.created_at >= FRESH_HOURS

\* C1: a put that takes effect leaves one entry for its digest, holding the
\* new payload, with created_at = last_accessed = now, and with
\* access_count 1 if there was no entry and the old access_count + 1 if
\* there was one.
C1_PutAccumulates ==
    (last.op = "put" /\ last.fail # "early") =>
        /\ Cardinality(RowsFor(table, last.h)) = 1
        /\ \A n \in RowsFor(table, last.h) :
             /\ json_loads(n.analysis_result) = lastput[last.h][1].payload
             /\ n.created_at = now
             /\ n.last_accessed = now
             /\ last.pre = {} => n.accessed_count = 1
             /\ \A r \in last.pre : n.accessed_count = r.accessed_count + 1

\* a second put for a digest whose entry had access_count 1 has made it 2
C1_Witness ==
    /\ last.op = "put"
    /\ last.fail = "none"
    /\ \E r \in last.pre : r.accessed_count = 1
    /\ \E n \in RowsFor(table, last.h) : n.accessed_count = 2

\* C2: get returns a payload only if there is an entry for the digest with
\* now - created_at < 24h; if the entry is 24h old or older (or there is
\* none) it returns None, and the old row is still in the table.
C2_GetOnlyFresh ==
    last.op = "get" =>
        /\ last.ret # None => \E r \in last.pre : now - r.created_at < FRESH_HOURS
        /\ (\A r \in last.pre : now - r.created_at >= FRESH_HOURS) =>
               /\ last.ret = None
               /\ last.pre \subseteq table

\* a get of an entry exactly 24 hours old returned None and the row is kept
C2_Witness ==
    /\ last.op = "get"
    /\ last.fail = "none"
    /\ last.ret = None
    /\ \E r \in last.pre : now - r.created_at = FRESH_HOURS /\ r \in table

\* C3: a get that returns a payload (a hit) adds exactly 1 to the entry's
\* access_count and sets its last_accessed to now, and nothing else changes;
\* a get of a digest with no entry or a Stale entry changes no entry.
C3_GetTouches ==
    [][last'.op = "get" =>
         LET old == RowsFor(table, last'.h) IN
         /\ last'.ret # None =>
              table' = (table \ old) \cup
                       {[r EXCEPT !.accessed_count = r.accessed_count + 1,
                                  !.last_accessed = now] : r \in old}
         /\ (\A r \in old : IsStale(r, now)) => table' = table]_vars

\* a hit on an entry created earlier: its count went from 1 to 2 and its
\* last_accessed is now
C3_Witness ==
    /\ last.op = "get"
    /\ last.ret # None
    /\ \E r \in last.pre : r.accessed_count = 1 /\ r.last_accessed < now
    /\ \E n \in RowsFor(table, last.h) :
         n.accessed_count = 2 /\ n.last_accessed = now /\ n.created_at < now

\* C4: a get keeps every row's payload and created_at and adds or removes no
\* row, so a Fresh entry stays Fresh with its expiry and a Stale one stays
\* Stale; a get of a Stale entry returns None; and a digest that has a Fresh
\* entry after a step without having had one before it was just put.
C4_GetNeverRefreshes ==
    [][/\ last'.op = "get" =>
            /\ \A r \in table : \E n \in table' :
                 /\ n.id = r.id
                 /\ n.content_hash = r.content_hash
                 /\ n.analysis_result = r.analysis_result
                 /\ n.created_at = r.created_at
            /\ \A n \in table' : \E r \in table : r.id = n.id
            /\ (\E r \in RowsFor(table, last'.h) : IsStale(r, now)) =>
                   last'.ret = None
       /\ \A n \in table' :
            (IsFresh(n, now') /\
             ~\E r \in RowsFor(table, n.content_hash) : IsFresh(r, now))
            => (last'.op = "put" /\ last'.h = n.content_hash)]_vars

\* a get of a Stale entry that had been read while it was Fresh: it returned
\* None and the entry is still Stale
C4_Witness ==
    /\ last.op = "get"
    /\ last.fail = "none"
    /\ last.ret = None
    /\ \E r \in RowsFor(table, last.h) :
         IsStale(r, now) /\ r.accessed_count >= 2 /\ r.last_accessed > r.created_at

\* C5: a put on a Stale entry leaves one entry for the digest, Fresh, whose
\* payload is the new payload alone, whose created_at is now and whose
\* access_count is the stale entry's + 1; and a get that finds that entry
\* Fresh returns the payload of that put.
C5_PutOverStale ==
    /\ (last.op = "put" /\ last.fail # "early" /\
        \E r \in last.pre : IsStale(r, now)) =>
           /\ Cardinality(RowsFor(table, last.h)) = 1
           /\ \A n \in RowsFor(table, last.h) :
                /\ IsFresh(n, now)
                /\ n.created_at = now
                /\ n.id \notin {r.id : r \in last.pre}
                /\ json_loads(n.analysis_result) = lastput[last.h][1].payload
                /\ \A r \in last.pre : n.accessed_count = r.accessed_count + 1
    /\ (last.op = "get" /\ last.fail = "none" /\ lastput[last.h] # None /\
        (\E r \in last.pre : IsFresh(r, now))) =>
           (lastput[last.h][1].found = "stale" =>
                last.ret = Some(lastput[last.h][1].payload))

\* a get, later than the put but within 24 hours of it, has returned the
\* payload that was put on a Stale entry
C5_Witness ==
    /\ last.op = "get"
    /\ last.ret # None
    /\ lastput[last.h] # None
    /\ lastput[last.h][1].found = "stale"
    /\ last.ret = Some(lastput[last.h][1].payload)
    /\ \E r \in last.pre : r.created_at < now /\ r.accessed_count >= 2

\* C6: a get that finds the entry of its digest within 24 hours of the last
\* put for that digest returns a payload equal to the one that was put.
C6_RoundTrip ==
    (last.op = "get" /\ last.fail = "none" /\
     \E r \in last.pre : IsFresh(r, now)) =>
        /\ lastput[last.h] # None
        /\ last.ret = Some(lastput[last.h][1].payload)

\* a get 12 hours after the put of ResultA returned ResultA
C6_Witness ==
    /\ last.op = "get"
    /\ last.ret = Some(ResultA)
    /\ \E r \in last.pre : r.created_at < now

\* C7: a sweep that takes effect removes the rows whose created_at is more
\* than 7 days before now and no other row, and changes no row it keeps.
C7_SweepExact ==
    [][(last'.op = "sweep" /\ last'.fail # "early") =>
         table' = {r \in table : now - r.created_at <= RetentionHours}]_vars

\* a sweep deleted one entry and kept a Stale one
C7_Witness ==
    /\ last.op = "sweep"
    /\ last.fail = "none"
    /\ last.deleted = 1
    /\ \E r \in table : IsStale(r, now)

\* C8 as claimed: sweep returns the number of entries it deleted.
C8_SweepReturnsCount ==
    (last.op = "sweep" /\ last.fail = "none") => last.ret = Some(last.deleted)

\* C8 as amended: sweep returns None; the number of entries it deleted is
\* the number of rows past retention, and it is only logged, when positive.
C8_SweepLogsCount ==
    last.op = "sweep" =>
        /\ last.ret = None
        /\ last.fail = "none" =>
             /\ last.deleted = Cardinality(last.pre)
             /\ last.logged = IF last.pre = {} THEN None
                              ELSE Some(Cardinality(last.pre))

\* a sweep deleted two entries, logged 2 and returned None
C8_Witness ==
    /\ last.op = "sweep"
    /\ last.deleted = 2
    /\ last.logged = Some(2)
    /\ last.ret = None

\* C9: a call of get, put or sweep in which the storage fails raises
\* nothing and returns None: for get that is a miss.
C9_FailuresAbsorbed ==
    /\ ~last.raised
    /\ last.fail # "none" => last.ret = None

\* the storage failed in a get of a Fresh entry: None came back
C9_Witness ==
    /\ last.op = "get"
    /\ last.fail = "early"
    /\ ~last.raised
    /\ last.ret = None
    /\ \E r \in last.pre : IsFresh(r, now)

\* C10: while a get stands between its SELECT and its UPDATE, the entry of
\* its digest is the one the SELECT read: no put has replaced it and no
\* sweep has removed it.
C10_GetAtomic ==
    \A r \in Reqs :
        pc[r] = "update" =>
            {row.id : row \in RowsFor(table, loc[r].h)} = loc[r].seen

\* a handler that missed, computed and stored has returned: its response is
\* the analyzer's result, not a cached payload
Computed(r) ==
    /\ pc[r] = "idle"
    /\ loc[r].response # None
    /\ ~PyHasKey(loc[r].response[1], "from_cache")

\* C11: two requests for the same content that both miss, both compute and
\* both put: in every interleaving each returns its own successful result,
\* a put leaves exactly one entry for the digest, there are never two
\* entries for it, and the entry's payload is the result of one of the two.
C11_ConcurrentPuts ==
    /\ [](\A h \in Hashes : Cardinality(RowsFor(table, h)) <= 1)
    /\ [](\A r \in Reqs :
            Computed(r) => PyGet(loc[r].response[1], "success") = PyBool(TRUE))
    /\ []((\A r \in Reqs : Computed(r)) =>
            \A row \in RowsFor(table, "h1") :
                \E r \in Reqs :
                    json_loads(row.analysis_result) = loc[r].response[1])
    /\ [][\A r \in Reqs :
            (pc[r] = "put" /\ pc'[r] = "idle") =>
                Cardinality(RowsFor(table', loc[r].h)) = 1]_vars

\* both requests missed at the same instant, computed different results and
\* stored them one after the other: the entry is the later result and has
\* been written twice
C11_Witness ==
    /\ now = 0
    /\ next_id = 3
    /\ \A r \in Reqs : Computed(r)
    /\ loc["r1"].response # loc["r2"].response
    /\ \E row \in RowsFor(table, "h1") :
            /\ row.accessed_count = 2
            /\ json_loads(row.analysis_result) = loc["r2"].response[1]

\* C14: cleaning a cleaned text changes nothing:
\* clean_text(clean_text(x)) = clean_text(x).
C14_CleanIdempotent ==
    inp.op = "clean_text" => clean_text(out) = out

\* C15: a cleaned text has no two adjacent whitespace characters and neither
\* starts nor ends with whitespace.
C15_CleanNormalized ==
    inp.op = "clean_text" =>
        /\ \A i \in 1..(Len(out) - 1) : ~(IsSpace(out[i]) /\ IsSpace(out[i + 1]))
        /\ out # <<>> => ~IsSpace(out[1]) /\ ~IsSpace(out[Len(out)])

\* the result of analyze_readability is the variant with an error field and
\* the two counts, and nothing else
IsErrorVariant(d) == DOMAIN d = {"error", "word_count", "sentence_count"}

\* C16: analyze_readability of a text that is empty or has fewer than 10
\* characters once trimmed returns the error variant with word_count 0 and
\* sentence_count 0, without any metric or readability_level.
C16_TooShort ==
    (inp.op = "analyze_readability" /\ Len(Strip(inp.text)) < 10) =>
        /\ IsErrorVariant(out)
        /\ out.error # ""
        /\ out.word_count = 0
        /\ out.sentence_count = 0

\* a text of 10 characters or more of which 9 are left once trimmed
C16_Witness ==
    /\ inp.op = "analyze_readability"
    /\ Len(inp.text) >= 10
    /\ Len(Strip(inp.text)) = 9
    /\ inp.lib.fails = "none"
    /\ IsErrorVariant(out)
    /\ out.word_count = 0

\* the levels, from the hardest to the easiest
LevelRank(level) ==
    CASE level = "Very Difficult" -> 0
      [] level = "Difficult" -> 1
      [] level = "Fairly Difficult" -> 2
      [] level = "Standard" -> 3
      [] level = "Fairly Easy" -> 4
      [] level = "Easy" -> 5
      [] level = "Very Easy" -> 6

\* C17: readability_level is a step function of flesch_reading_ease with
\* inclusive lower bounds (90 Very Easy, 80 Easy, 70 Fairly Easy, 60
\* Standard, 50 Fairly Difficult, 30 Difficult, below that Very Difficult),
\* and a lower score never gets an easier level.
C17_LevelLadder ==
    (inp.op = "analyze_readability" /\ "readability_level" \in DOMAIN out) =>
        LET score == out.flesch_reading_ease
            level == out.readability_level
        IN  /\ score = inp.lib.fre
            /\ level = "Very Easy" <=> score >= 90
            /\ level = "Easy" <=> (score >= 80 /\ score < 90)
            /\ level = "Fairly Easy" <=> (score >= 70 /\ score < 80)
            /\ level = "Standard" <=> (score >= 60 /\ score < 70)
            /\ level = "Fairly Difficult" <=> (score >= 50 /\ score < 60)
            /\ level = "Difficult" <=> (score >= 30 /\ score < 50)
            /\ level = "Very Difficult" <=> score < 30
            /\ \A lower \in Scores :
                   lower <= score =>
                       LevelRank(ReadabilityLevel(lower)) <= LevelRank(level)

\* a score that is exactly a bound gets the level of that bound
C17_Witness ==
    /\ inp.op = "analyze_readability"
    /\ "readability_level" \in DOMAIN out
    /\ out.flesch_reading_ease = 60
    /\ out.readability_level = "Standard"

\* C18: when the text has 10 characters or more once trimmed and nothing
\* fails, word_count is the number of alphabetic tokens, sentence_count the
\* number of sentences, avg_sentence_length the number of all word tokens
\* divided by sentence_count (0 without sentences), avg_word_length the mean
\* length of the alphabetic tokens, and neither count is negative.
C18_Metrics ==
    (inp.op = "analyze_readability" /\ "avg_word_length" \in DOMAIN out) =>
        LET words == word_tokenize(inp.text)
            alphabetic == {i \in 1..Len(words) : IsAlpha(words[i])}
            letters == {<<i, j>> \in (1..Len(words)) \X (1..(MaxBody + 1)) :
                           i \in alphabetic /\ j <= Len(words[i])}
        IN  /\ Len(Strip(inp.text)) >= 10
            /\ out.word_count = Cardinality(alphabetic)
            /\ out.sentence_count = Len(sent_tokenize(inp.text))
            /\ out.word_count >= 0 /\ out.sentence_count >= 0
            /\ IF out.sentence_count = 0
                 THEN out.avg_sentence_length.num = 0
                 ELSE out.avg_sentence_length.num * out.sentence_count
                          = Len(words) * out.avg_sentence_length.den
            /\ out.avg_word_length.den # 0
            /\ out.avg_word_length.num * out.word_count
                   = Cardinality(letters) * out.avg_word_length.den

\* a text of two sentences with a token that is not alphabetic: fewer words
\* counted than tokens
C18_Witness ==
    /\ inp.op = "analyze_readability"
    /\ "avg_word_length" \in DOMAIN out
    /\ out.sentence_count = 2
    /\ out.word_count >= 2
    /\ out.word_count < Len(word_tokenize(inp.text))

\* something fails inside the try block of analyze_readability
MetricsFail ==
    \/ inp.lib.fails # "none"
    \/ /\ word_tokenize(inp.text) # <<>>
       /\ \A i \in 1..Len(word_tokenize(inp.text)) :
              ~IsAlpha(word_tokenize(inp.text)[i])

\* C19: a failure inside the metric computation of analyze_readability is
\* caught: the error variant comes back, with the error message, word_count
\* the number of whitespace-separated pieces of the text, sentence_count the
\* number of pieces between its dots, and no readability_level.
C19_MetricsFailureCaught ==
    (inp.op = "analyze_readability" /\ Len(Strip(inp.text)) >= 10
       /\ MetricsFail) =>
        LET text == inp.text
            starts == {i \in 1..Len(text) :
                          ~IsSpace(text[i]) /\ (i = 1 \/ IsSpace(text[i - 1]))}
            dots == {i \in 1..Len(text) : text[i] = "."}
        IN  /\ IsErrorVariant(out)
            /\ out.error # ""
            /\ out.word_count = Cardinality(starts)
            /\ out.sentence_count = Cardinality(dots) + 1

\* nltk raised for a text of four whitespace-separated pieces, of which
\* three are alphabetic tokens: word_count is that of split()
C19_Witness ==
    /\ inp.op = "analyze_readability"
    /\ inp.lib.fails = "nltk"
    /\ IsErrorVariant(out)
    /\ out.word_count = 4
    /\ out.sentence_count = 2
    /\ Len(AlphaWords(word_tokenize(inp.text))) = 3

\* C20: extract_key_phrases never raises; it returns at most top_n words,
\* all distinct, in lowercase letters only, longer than two characters and
\* none of them a stop word; for an empty text it returns the empty list.
C20_KeyPhrases ==
    inp.op = "extract_key_phrases" =>
        /\ DOMAIN out = {"returned"}
        /\ LET phrases == out.returned
           IN  /\ Len(phrases) <= inp.top_n
               /\ \A i, j \in 1..Len(phrases) :
                      phrases[i] = phrases[j] => i = j
               /\ \A i \in 1..Len(phrases) :
                      /\ \A k \in 1..Len(phrases[i]) : IsLower(phrases[i][k])
                      /\ Len(phrases[i]) > 2
                      /\ phrases[i] \notin inp.stop_words
               /\ inp.text = <<>> => phrases = <<>>

\* a text with a word in capitals, a capitalized stop word and a second
\* word, with top_n = 1: one word comes back, in lowercase
C20_Witness ==
    /\ inp.op = "extract_key_phrases"
    /\ inp.text = Join(<<<<"S", "Q", "L">>, <<"T", "h", "e">>,
                         <<"j", "a", "v", "a">>>>)
    /\ inp.top_n = 1
    /\ inp.fails = "none"
    /\ out = Returned(<<<<"s", "q", "l">>>>)

\* a strategy fails on the bytes: it raises, or the text it produces is empty
PrimaryFails(b) ==
    b.plumber.fails # None \/ PlumberText(PagesRead(b.plumber)) = <<>>

\* C12: extract_text_from_bytes runs the fallback strategy (PyPDF2) whenever
\* the primary one (pdfplumber) fails, that is, raises or produces an empty
\* result.
C12_FallbackOnFailure ==
    (inp.op = "extract_text_from_bytes" /\ PrimaryFails(inp.pdf_bytes)) =>
        out.fallback

\* no page that either library reads from the bytes has any text
NoTextIn(b) ==
    /\ \A i \in 1..Len(PagesRead(b.plumber)) : PagesRead(b.plumber)[i] = <<>>
    /\ \A i \in 1..Len(PagesRead(b.pypdf)) : PagesRead(b.pypdf)[i] = <<>>

\* no text can be extracted from the arguments of process_pdf: there is no
\* argument, the bytes are empty, the file is missing, or both strategies
\* fail on the bytes (each raises or finds no text)
NoTextExtractable ==
    IF inp.pdf_path # None
      THEN inp.pdf_path[1] = Missing \/ NoTextIn(inp.pdf_path[1])
    ELSE inp.pdf_bytes = None \/ NoTextIn(inp.pdf_bytes[1])

\* C13: for arguments from which no text can be extracted, process_pdf
\* raises nothing and returns success = false with an error string that is
\* not empty.
C13_NoTextIsFailure ==
    (inp.op = "process_pdf" /\ NoTextExtractable) =>
        /\ "success" \in DOMAIN out
        /\ out.success = FALSE
        /\ "error" \in DOMAIN out
        /\ out.error # ""

\* the tokens that extract_key_phrases counts in its text
CountedTokens ==
    KeepWords(word_tokenize(Lower(inp.text)), inp.stop_words)

\* where a counted token first occurs
FirstOccurrence(w) ==
    CHOOSE i \in 1..Len(CountedTokens) :
        /\ CountedTokens[i] = w
        /\ \A j \in 1..(i - 1) : CountedTokens[j] # w

\* a ranks before b: it is more frequent, or as frequent and seen earlier
RanksBefore(a, b) ==
    \/ Count(CountedTokens, a) > Count(CountedTokens, b)
    \/ /\ Count(CountedTokens, a) = Count(CountedTokens, b)
       /\ FirstOccurrence(a) < FirstOccurrence(b)

\* C21: the result of extract_key_phrases is the first top_n tokens of the
\* order by descending frequency in which tokens of equal frequency stand in
\* the order of their first occurrence.
C21_KeyPhraseOrder ==
    (inp.op = "extract_key_phrases" /\ inp.fails = "none") =>
        LET phrases == out.returned
            distinct == Range(CountedTokens)
        IN  /\ Range(phrases) \subseteq distinct
            /\ Len(phrases) = IF Cardinality(distinct) < inp.top_n
                                THEN Cardinality(distinct) ELSE inp.top_n
            /\ \A i, j \in 1..Len(phrases) :
                   i < j => RanksBefore(phrases[i], phrases[j])
            /\ \A w \in distinct \ Range(phrases) :
                   \A i \in 1..Len(phrases) : RanksBefore(phrases[i], w)

\* "python python sql python sql java" with top_n = 2 gives python, sql
C21_Witness ==
    /\ inp.op = "extract_key_phrases"
    /\ inp.text = Join(ScenarioWords)
    /\ inp.top_n = 2
    /\ inp.fails = "none"
    /\ out = Returned(<<<<"p", "y", "t", "h", "o", "n">>, <<"s", "q", "l">>>>)

\* C22: process_pdf raises nothing and returns a result with a success
\* field: when it is true the result has cleaned_text, readability_metrics,
\* key_phrases, text_length = len(cleaned_text) and word_count =
\* readability_metrics.word_count; when it is false it has an error string.
C22_TaggedResult ==
    inp.op = "process_pdf" =>
        /\ "success" \in DOMAIN out
        /\ out.success =>
               /\ {"cleaned_text", "readability_metrics", "key_phrases",
                   "text_length", "word_count"} \subseteq DOMAIN out
               /\ out.text_length = Len(out.cleaned_text)
               /\ out.word_count = out.readability_metrics.word_count
        /\ ~out.success =>
               /\ "error" \in DOMAIN out
               /\ out.error \in STRING

\* a PDF of which pdfplumber reads a page of text: success, with the metrics
\* of the cleaned text
C22_Witness ==
    /\ inp.op = "process_pdf"
    /\ inp.lib.fails = "none"
    /\ out.success
    /\ out.text_length >= MIN_TEXT_LENGTH
    /\ out.word_count = 3
    /\ out.readability_metrics.readability_level = "Standard"
    /\ out.key_phrases = <<>>

\* the text of the pages, each followed by a newline; pages without text
\* are left out when skip is true
RECURSIVE PagesText(_, _)
PagesText(pages, skip) ==
    IF pages = <<>> THEN <<>>
    ELSE (IF skip /\ Head(pages) = <<>> THEN <<>> ELSE Head(pages) \o <<"\n">>)
             \o PagesText(Tail(pages), skip)

\* C29: when pdfplumber raises in extract_text_from_bytes, the text of the
\* pages it had read stays and the page texts of PyPDF2 are appended to it;
\* the result is the "Error:" marker when PyPDF2 raises too, and only then.
C29_PartialTextKept ==
    inp.op = "extract_text_from_bytes" =>
        LET b == inp.pdf_bytes
            partial == PagesText(PagesRead(b.plumber), TRUE)
        IN  /\ (b.plumber.fails # None /\ b.pypdf.fails = None) =>
                   out.text = partial \o PagesText(b.pypdf.pages, FALSE)
            /\ out.text = ErrorText <=>
                   (b.plumber.fails # None /\ b.pypdf.fails # None)

\* pdfplumber read a page of text and then raised; PyPDF2 read that page
\* and one without text: the result holds the page's text twice and the
\* three newlines
C29_Witness ==
    /\ inp.op = "extract_text_from_bytes"
    /\ inp.pdf_bytes.plumber.fails = Some(1)
    /\ inp.pdf_bytes.pypdf.fails = None
    /\ PagesRead(inp.pdf_bytes.plumber) = <<Prefix(AlphaSample, MaxBody)>>
    /\ inp.pdf_bytes.pypdf.pages = <<Prefix(AlphaSample, MaxBody), <<>>>>
    /\ Len(out.text) = 2 * MaxBody + 3

\* C30: a text of at least 10 trimmed characters that has word tokens of
\* which none is alphabetic gets the error variant with the counts of
\* split() and split('.'), and no avg_word_length: the division by the
\* number of alphabetic tokens raises and is caught.
C30_NoAlphabeticToken ==
    (inp.op = "analyze_readability" /\ Len(Strip(inp.text)) >= 10
       /\ inp.lib.fails = "none"
       /\ word_tokenize(inp.text) # <<>>
       /\ \A i \in 1..Len(word_tokenize(inp.text)) :
              ~IsAlpha(word_tokenize(inp.text)[i])) =>
        /\ IsErrorVariant(out)
        /\ out.error = "division by zero"
        /\ out.word_count = Len(SplitWhitespace(inp.text))
        /\ out.sentence_count = Len(SplitOnDot(inp.text))

\* "12 34. 56 7": four pieces, two of them around the dot, and six tokens
C30_Witness ==
    /\ inp.op = "analyze_readability"
    /\ inp.text = Prefix(DigitSample, 11)
    /\ inp.lib.fails = "none"
    /\ out.error = "division by zero"
    /\ out.word_count = 4
    /\ out.sentence_count = 2
    /\ Len(word_tokenize(inp.text)) = 5

\* the request just handled, in a state or as the step into it
IsTextRequest(i) == i.op = "analyze_text"
IsPdfRequest(i) == i.op = "analyze_pdf"

\* the response was served from the cache
FromCache(o) == PyGet(o.response.body, "from_cache") = PyBool(TRUE)

\* the handler made this call
Called(o, call) == \E i \in 1..Len(o.calls) : o.calls[i] = call

\* the payload a row stores
Stored(row) == json_loads(row.analysis_result)

\* C23: the entry an analyze_text request addresses is the one whose key is
\* the digest of exactly the submitted text: every row the request touches
\* or writes has that key, and it is served from the cache only when a row
\* with that key was stored, so that requests with the same text address
\* the same entry and a text with a trailing space addresses another one.
C23_ExactKey ==
    [][(IsTextRequest(inp') /\ inp'.data # None) =>
          LET text == inp'.data[1]
          IN  /\ \A row \in (table' \ table) \cup (table \ table') :
                     row.content_hash = [sha256 |-> text]
              /\ FromCache(out') =>
                     \E row \in table : row.content_hash = [sha256 |-> text]
              /\ (\E row \in table :
                     /\ row.content_hash = [sha256 |-> text]
                     /\ now - row.created_at < FRESH_HOURS) =>
                     (FromCache(out') \/ inp'.storage # NoFailure)]_vars

\* the resume and the resume followed by a space each have their own entry,
\* and the request for the second one has just been served from its entry
C23_Witness ==
    /\ IsTextRequest(inp)
    /\ inp.data = Some(ResumeSample \o <<" ">>)
    /\ FromCache(out)
    /\ \E r1, r2 \in table :
           /\ r1.content_hash = [sha256 |-> ResumeSample]
           /\ r2.content_hash = [sha256 |-> ResumeSample \o <<" ">>]
           /\ r1.id # r2.id

\* C25: analyze_text calls put only for a result whose success field is
\* truthy; a request that is rejected, finds the analyzer unavailable, or
\* whose analysis fails or raises leaves the table as it was; every row
\* the handler writes stores a payload with success = true.
C25_OnlySuccessCached ==
    [][IsTextRequest(inp') =>
          /\ Called(out', "put") =>
                 /\ inp'.analyzer.kind = "returns"
                 /\ PyTruthy(PyGet(inp'.analyzer.result, "success"))
          /\ (out'.response.status \in {400, 500, 503}
                \/ PyGet(out'.response.body, "success") # PyBool(TRUE)) =>
                 table' = table
          /\ Called(out', "put") =>
                 \A row \in table' \ table :
                     PyGet(Stored(row), "success") = PyBool(TRUE)]_vars

\* an analysis that failed was returned with status 200 and not stored,
\* while the table holds an entry of an earlier request
C25_Witness ==
    /\ IsTextRequest(inp)
    /\ inp.analyzer.result = FailedResult
    /\ out.calls = <<"get", "analyze">>
    /\ out.response.status = 200
    /\ table # {}
    /\ \A row \in table : row.content_hash # get_content_hash(inp.data[1])

\* C26: a response from the cache is the stored payload with from_cache =
\* true, made with a get and nothing else (no analysis, no put); the hit
\* leaves the payload and created_at of the entry as they were and counts
\* the access; the entry served is less than 24 hours past its last put,
\* whatever its access count.
C26_HitServesStored ==
    [][(IsTextRequest(inp') /\ FromCache(out')) =>
          /\ out'.calls = <<"get">>
          /\ out'.response.status = 200
          /\ \E row \in table :
                 /\ row.content_hash = get_content_hash(inp'.data[1])
                 /\ now - row.created_at < FRESH_HOURS
                 /\ out'.response.body =
                        PySetItem(Stored(row), "from_cache", PyBool(TRUE))
                 /\ table' = (table \ {row}) \cup
                        {[row EXCEPT !.accessed_count = @ + 1,
                                     !.last_accessed = now]}]_vars

\* an entry put at hour 0 and read at hour 12 is no longer served at hour
\* 24: the request is analysed again
C26_Witness ==
    /\ IsTextRequest(inp)
    /\ now = FRESH_HOURS
    /\ out.calls = <<"get", "analyze">>
    /\ \E row \in table :
           /\ row.content_hash = get_content_hash(inp.data[1])
           /\ row.created_at = 0
           /\ row.last_accessed > 0
           /\ row.accessed_count >= 2

\* C24: analyze_pdf never calls get and never answers from the cache: when
\* the analyzer returns, the response carries the analyzer's result. It
\* calls put exactly when the upload was accepted and the result's success
\* is truthy, and the row that put writes has the digest of the stringified
\* extracted_profile of the result as its key.
C24_PdfWriteOnly ==
    IsPdfRequest(inp) =>
        LET result == inp.analyzer.result
            profile == PyGetDefault(result, "extracted_profile", PyDict(<<>>))
        IN  /\ ~Called(out, "get")
            /\ ~FromCache(out)
            /\ Called(out, "put") <=>
                   /\ Accepted(inp.upload)
                   /\ inp.analyzer.kind = "returns"
                   /\ PyTruthy(PyGet(result, "success"))
            /\ (Accepted(inp.upload) /\ inp.analyzer.kind = "returns") =>
                   \A i \in 1..Len(result.v) :
                       PyGet(out.response.body, result.v[i][1]) =
                           result.v[i][2]
            /\ (Called(out, "put") /\ inp.storage = NoFailure) =>
                   \E row \in table :
                       /\ row.content_hash = [sha256 |-> py_str(profile)]
                       /\ row.created_at = now
                       /\ PyGet(Stored(row), "extracted_profile") = profile

\* a second upload with the same extracted profile has been analysed and
\* put again, although the entry of the first one was in the table
C24_Witness ==
    /\ IsPdfRequest(inp)
    /\ inp.analyzer.kind = "returns"
    /\ inp.analyzer.result = ResultA
    /\ out.calls = <<"save", "analyze", "put", "remove">>
    /\ \E row \in table :
           /\ row.content_hash = PdfKey(ResultA)
           /\ row.accessed_count >= 2

\* C28: analyze_pdf saves the upload exactly when it passed the checks, and
\* then its last call is the removal, whether the analyzer was unavailable
\* (503), raised (500) or returned a result (200); the response is the one
\* given when the removal succeeds.
C28_RemovalAttempted ==
    IsPdfRequest(inp) =>
        /\ Called(out, "save") <=> Accepted(inp.upload)
        /\ Called(out, "remove") <=> Called(out, "save")
        /\ Called(out, "save") =>
               /\ out.calls[1] = "save"
               /\ out.calls[Len(out.calls)] = "remove"
               /\ \A i \in 1..(Len(out.calls) - 1) : out.calls[i] # "remove"
               /\ out.response.status =
                      CASE inp.analyzer.kind = "unavailable" -> 503
                        [] inp.analyzer.kind = "raises" -> 500
                        [] inp.analyzer.kind = "returns" -> 200
               /\ out.response =
                      analyze_pdf(inp.upload, inp.analyzer, inp.storage,
                                  "removed").response

\* the removal raised after a successful analysis, and the response is the
\* result with status 200
C28_Witness ==
    /\ IsPdfRequest(inp)
    /\ inp.removal = "OSError"
    /\ inp.analyzer.result = ResultA
    /\ out.calls = <<"save", "analyze", "put", "remove">>
    /\ out.response.status = 200
    /\ PyGet(out.response.body, "success") = PyBool(TRUE)

\* C27: every stored entry has accessed_count >= 1; from one operation to
\* the next the accessed_count of a digest that keeps its entry never
\* decreases; an entry disappears only in a sweep; and the put that stores
\* a digest that has no entry gives it accessed_count = 1.
C27_CountMonotone ==
    /\ [](\A row \in table : row.accessed_count >= 1)
    /\ [][\A h \in Hashes :
            /\ \A r \in RowsFor(table, h), s \in RowsFor(table', h) :
                   s.accessed_count >= r.accessed_count
            /\ (RowsFor(table, h) # {} /\ RowsFor(table', h) = {}) =>
                   last'.op = "sweep"
            /\ (RowsFor(table, h) = {} /\ RowsFor(table', h) # {}) =>
                   /\ last'.op = "put"
                   /\ \A s \in RowsFor(table', h) : s.accessed_count = 1]_vars

\* the only digest ever stored was deleted by a sweep and has been put
\* again: its second row starts at 1
C27_Witness ==
    \E h \in Hashes :
        /\ last.op = "put"
        /\ last.h = h
        /\ last.fail = "none"
        /\ last.pre = {}
        /\ \A g \in Hashes \ {h} : lastput[g] = None
        /\ \E row \in RowsFor(table, h) :
               row.id >= 2 /\ row.accessed_count = 1

====
